---- MODULE Spec2Model ----
(***************************************************************************)
(* Station consolidation of the Singapore rail data pipeline:              *)
(* Consolidator.consolidate, its exit-code normalisation and its natural   *)
(* exit ordering (src/src/processors/consolidator.py), with the geometry   *)
(* of src/processors/spatial_utils.py; the identity matcher                *)
(* (src/src/processors/matching_engine.py) and its callers; the resume     *)
(* logic and the checkpoint loader of Stage2Enrichment                     *)
(* (src/src/pipelines/stage2_enrichment.py).                               *)
(*                                                                         *)
(* Text is modelled as a sequence of one-character strings, so that        *)
(* strip, upper, replace, startswith and the regular expressions of the    *)
(* source are computed character by character.                             *)
(***************************************************************************)
EXTENDS Integers, Sequences, FiniteSets, TLC

VARIABLES
    raw_matches,        \* consolidate: the argument, a list of matches
    spatial_threshold,  \* Consolidator.spatial_threshold
    consolidated,       \* consolidate: the list built so far / returned
    idx,                \* consolidate: position of the outer for loop
    pc,                 \* consolidate: "loop" or "done"
    absorbed,           \* history: per station, the indices of the matches it absorbed
    previous,           \* history: the list as it was before the latest turn of the loop
    code,               \* _normalize_exit_code: the argument
    norm1,              \* _normalize_exit_code(code)
    norm2,              \* _normalize_exit_code(norm1)
    npc,                \* "start", "once", "twice"
    station_code_prefixes, \* MatchingEngine.config['station_code_prefixes']
    code_text,          \* _extract_codes: the argument text
    found,              \* _extract_codes(text)
    xpc,                \* "start", "done"
    dg_name,            \* match_station: datagov_name
    dg_exits,           \* match_station: exits
    search_results,     \* what onemap.search_onemap(datagov_name) returns
    nearby_results,     \* what onemap.get_nearby_mrt(lat, lng) returns
    match_result,       \* what match_station returns, or Raised
    mpc,                \* "start", "returned", "raised"
    dg_groups,          \* main / _match_stations: the station groups, in dict order,
                        \* each with what the two services return for it
    group_idx,          \* position of the loop over the groups
    outcomes,           \* history: what match_station gave for each group so far
    caller,             \* "main" or "stage1"
    ppc,                \* "matching", "consolidating", "aborted"
    input_stations,     \* execute: input_data.stations, as station ids
    checkpoint,         \* what _load_incremental_checkpoint returns
    resume_mode,        \* Stage2Enrichment.resume_mode
    retry_failed,       \* Stage2Enrichment.retry_failed
    enrich_results,     \* execute: the results dict
    stations_to_process, \* execute: the stations left to process
    station_idx,        \* position of the loop over stations_to_process
    extracted,          \* history: the ids _extract_station was called for
    epc,                \* "start", "loop", "returned", "timeout", "raised"
    main_file,          \* stage2_incremental.json
    backup_file,        \* stage2_incremental.json.bak
    enrichment_file,    \* stage2_enrichment.json
    loaded,             \* what _load_incremental_checkpoint returns
    loaded_from,        \* history: the source the returned checkpoint was taken from
    lpc,                \* "start", "done"
    saved,              \* execute: what _save_incremental_checkpoint wrote last
    retries,            \* history: the calls _retry_failed_stations made for the latest station
    calls,              \* match_station: the collaborator calls made so far, in order
    scan_idx,           \* match_station: position of the loop over the search results
    accum,              \* match_station: all_found_codes, best_name, highest_score
    spc,                \* "idle", "search", "scan", "fallback", "return", "returned", "raised"
    stage1_stations,    \* _apply_corrections: the argument
    corrected,          \* what _apply_corrections returns
    cpc,                \* "start", "done"
    name_a,             \* _get_base_name: the official name of a match
    name_b,             \* _get_base_name: the official name of a station
    base_a,             \* _get_base_name(name_a)
    base_b,             \* _get_base_name(name_b)
    bpc                 \* "start", "done"

vars == <<raw_matches, spatial_threshold, consolidated, idx, pc, absorbed, previous,
          code, norm1, norm2, npc,
          station_code_prefixes, code_text, found, xpc,
          dg_name, dg_exits, search_results, nearby_results, match_result, mpc,
          dg_groups, group_idx, outcomes, caller, ppc,
          input_stations, checkpoint, resume_mode, retry_failed, enrich_results,
          stations_to_process, station_idx, extracted, epc,
          main_file, backup_file, enrichment_file, loaded, loaded_from, lpc,
          saved, retries, calls, scan_idx, accum, spc,
          stage1_stations, corrected, cpc, name_a, name_b, base_a, base_b, bpc>>

consolidateVars ==
    <<raw_matches, spatial_threshold, consolidated, idx, pc, absorbed, previous>>
normalizeVars == <<code, norm1, norm2, npc>>
extractVars == <<station_code_prefixes, code_text, found, xpc>>
matchVars == <<dg_name, dg_exits, search_results, nearby_results, match_result, mpc>>
pipelineVars == <<dg_groups, group_idx, outcomes, caller, ppc>>
enrichVars ==
    <<input_stations, checkpoint, resume_mode, retry_failed, enrich_results,
      stations_to_process, station_idx, extracted, epc, saved, retries>>
loadVars == <<main_file, backup_file, enrichment_file, loaded, loaded_from, lpc>>
stepVars == <<calls, scan_idx, accum, spc>>
correctVars == <<stage1_stations, corrected, cpc>>
baseVars == <<name_a, name_b, base_a, base_b, bpc>>

----------------------------------------------------------------------------
(* Characters and text *)

\* The characters the model uses, in code point order.
AsciiOrder ==
    << "\n", " ", "(", ")", "/",
       "0", "1", "2", "3", "4", "5", "6", "7", "8", "9",
       "A", "B", "C", "D", "E", "F", "G", "H", "I", "J", "K", "L", "M",
       "N", "O", "P", "Q", "R", "S", "T", "U", "V", "W", "X", "Y", "Z", "_",
       "a", "b", "c", "d", "e", "f", "g", "h", "i", "j", "k", "l", "m",
       "n", "o", "p", "q", "r", "s", "t", "u", "v", "w", "x", "y", "z" >>

Chars == { AsciiOrder[k] : k \in DOMAIN AsciiOrder }

OrdMap == [ c \in Chars |-> CHOOSE k \in DOMAIN AsciiOrder : AsciiOrder[k] = c ]

\* Position of a character in code point order (order-isomorphic to ord()).
Ord(c) == OrdMap[c]

FirstUpper == Ord("A")
FirstLower == Ord("a")

UpperMap ==
    [ c \in Chars |->
        IF Ord(c) >= FirstLower THEN AsciiOrder[Ord(c) - FirstLower + FirstUpper] ELSE c ]

\* str.upper(), one character
UpperChar(c) == UpperMap[c]

\* str.upper()
Upper(s) == [ k \in DOMAIN s |-> UpperChar(s[k]) ]

\* str.isspace() / the regular expression class \s, one character
IsSpace(c) == c \in { " ", "\n" }

IsDigitChar(c) == Ord(c) >= Ord("0") /\ Ord(c) <= Ord("9")

\* str.isdigit(): non-empty and digits only
IsDigit(s) == Len(s) > 0 /\ \A k \in DOMAIN s : IsDigitChar(s[k])

RECURSIVE LStrip(_)
LStrip(s) == IF s # << >> /\ IsSpace(Head(s)) THEN LStrip(Tail(s)) ELSE s

RECURSIVE RStrip(_)
RStrip(s) ==
    IF s # << >> /\ IsSpace(s[Len(s)]) THEN RStrip(SubSeq(s, 1, Len(s) - 1)) ELSE s

\* str.strip()
Strip(s) == RStrip(LStrip(s))

\* str.startswith(p)
StartsWith(s, p) == Len(s) >= Len(p) /\ SubSeq(s, 1, Len(p)) = p

\* str.replace(old, ''): every non-overlapping occurrence, left to right
RECURSIVE Replace(_, _)
Replace(s, old) ==
    IF s = << >> THEN << >>
    ELSE IF StartsWith(s, old) THEN Replace(SubSeq(s, Len(old) + 1, Len(s)), old)
    ELSE << Head(s) >> \o Replace(Tail(s), old)

\* int(s) of a digit string
RECURSIVE IntOf(_)
IntOf(s) ==
    IF s = << >> THEN 0
    ELSE 10 * IntOf(SubSeq(s, 1, Len(s) - 1)) + (Ord(s[Len(s)]) - Ord("0"))

\* Python's < on str: lexicographic by code point
RECURSIVE StrLess(_, _)
StrLess(a, b) ==
    IF b = << >> THEN FALSE
    ELSE IF a = << >> THEN TRUE
    ELSE IF Head(a) # Head(b) THEN Ord(Head(a)) < Ord(Head(b))
    ELSE StrLess(Tail(a), Tail(b))

\* a text not computed yet
NoText == << "?" >>

EXIT == << "E", "X", "I", "T" >>
ExitLabel == << "E", "x", "i", "t", " " >>

----------------------------------------------------------------------------
(* Consolidator._normalize_exit_code *)

\* re.sub(r'^EXIT', '', s, flags=re.IGNORECASE)
ReSubLeadingExit(s) ==
    IF StartsWith(Upper(s), EXIT) THEN SubSeq(s, Len(EXIT) + 1, Len(s)) ELSE s

\* the longest run matched by \s* from position k on
RECURSIVE SkipSpace(_, _)
SkipSpace(s, k) == IF k <= Len(s) /\ IsSpace(s[k]) THEN SkipSpace(s, k + 1) ELSE k

\* the longest run matched by .* from position k on: "." matches all but a line break
RECURSIVE DotStarEnd(_, _)
DotStarEnd(s, k) == IF k <= Len(s) /\ s[k] # "\n" THEN DotStarEnd(s, k + 1) ELSE k

\* re.search(r'EXIT\s*(.*)', s, re.IGNORECASE): found, and group(1)
ReSearchExit(s) ==
    LET starts == { k \in 1..Len(s) : StartsWith(Upper(SubSeq(s, k, Len(s))), EXIT) }
    IN  IF starts = {} THEN [found |-> FALSE, group |-> << >>]
        ELSE LET k == CHOOSE x \in starts : \A y \in starts : x <= y
                 g == SkipSpace(s, k + Len(EXIT))
             IN  [found |-> TRUE, group |-> SubSeq(s, g, DotStarEnd(s, g) - 1)]

_normalize_exit_code(c) ==
    LET code_str == Strip(c)
    IN  IF Len(code_str) <= 2 \/ ~StartsWith(Upper(code_str), EXIT)
        THEN ExitLabel \o Strip(ReSubLeadingExit(code_str))
        ELSE LET m == ReSearchExit(code_str)
             IN  IF m.found THEN ExitLabel \o Strip(m.group) ELSE code_str

----------------------------------------------------------------------------
(* Consolidator._exit_sort_key and sorted() *)

\* a key that compares every identifier as text
exit_sort_key_AsText(exit_obj) ==
    [grp |-> 0, num |-> 0, str |-> Upper(Strip(Replace(exit_obj.exit_code, ExitLabel)))]

_exit_sort_key(exit_obj) ==
    LET val == Strip(Replace(exit_obj.exit_code, ExitLabel))
    IN  IF IsDigit(val) THEN [grp |-> 1, num |-> IntOf(val), str |-> << >>]
        ELSE [grp |-> 0, num |-> 0, str |-> Upper(val)]

\* Python's < on the key tuples (0, str) and (1, int)
KeyLess(a, b) ==
    \/ a.grp < b.grp
    \/ a.grp = b.grp /\ a.grp = 1 /\ a.num < b.num
    \/ a.grp = b.grp /\ a.grp = 0 /\ StrLess(a.str, b.str)

\* insert x after every element whose key is not greater: keeps sorted() stable
RECURSIVE InsertByKey(_, _)
InsertByKey(sorted, x) ==
    IF sorted = << >> THEN << x >>
    ELSE IF KeyLess(_exit_sort_key(x), _exit_sort_key(Head(sorted)))
         THEN << x >> \o sorted
         ELSE << Head(sorted) >> \o InsertByKey(Tail(sorted), x)

\* sorted(exits, key=self._exit_sort_key)
RECURSIVE SortedExits(_)
SortedExits(exits) ==
    IF exits = << >> THEN << >>
    ELSE InsertByKey(SortedExits(SubSeq(exits, 1, Len(exits) - 1)), exits[Len(exits)])

----------------------------------------------------------------------------
(* Geometry: src/processors/spatial_utils.py                                *)
(*                                                                          *)
(* Every point of the model lies on one meridian (lng = 0) and lat is the   *)
(* arc length from the equator in metres, so that the haversine formula     *)
(* reduces to the absolute difference of the two lat values.  A centroid is *)
(* kept as the exact fraction sum / count.                                  *)

None == "None"

RECURSIVE SumOf(_, _)
SumOf(coords_list, f) ==
    IF coords_list = << >> THEN 0
    ELSE coords_list[1][f] + SumOf(Tail(coords_list), f)

calculate_centroid(coords_list) ==
    IF coords_list = << >> THEN None
    ELSE [lat |-> [num |-> SumOf(coords_list, "lat"), den |-> Len(coords_list)],
          lng |-> [num |-> SumOf(coords_list, "lng"), den |-> Len(coords_list)]]

Abs(n) == IF n < 0 THEN -n ELSE n

\* metres between two points of the meridian, as a fraction
haversine_distance(p1, p2) ==
    [num |-> Abs(p1.lat.num * p2.lat.den - p2.lat.num * p1.lat.den),
     den |-> p1.lat.den * p2.lat.den]

\* dist < limit, for a fraction dist and an integer limit
DistLess(dist, limit) == dist.num < limit * dist.den

----------------------------------------------------------------------------
(* Consolidator *)

DefaultThreshold == 800
NameThreshold == 300

MRT_LRT_STATION ==
    << " ", "M", "R", "T", "/", "L", "R", "T", " ", "S", "T", "A", "T", "I",
       "O", "N" >>
MRT_STATION ==
    << " ", "M", "R", "T", " ", "S", "T", "A", "T", "I", "O", "N" >>
LRT_STATION ==
    << " ", "L", "R", "T", " ", "S", "T", "A", "T", "I", "O", "N" >>
STATION ==
    << " ", "S", "T", "A", "T", "I", "O", "N" >>

_get_base_name(official_name) ==
    Strip(Replace(Replace(Replace(Replace(Upper(official_name),
        MRT_LRT_STATION), MRT_STATION), LRT_STATION), STATION))

\* set(codes)
SetOf(seq) == { seq[k] : k \in DOMAIN seq }

\* sorted(list(codes)) of a set of texts
RECURSIVE SortedList(_)
SortedList(S) ==
    IF S = {} THEN << >>
    ELSE LET least == CHOOSE x \in S : \A y \in S : ~StrLess(y, x)
         IN  << least >> \o SortedList(S \ { least })

\* the criteria without the base-name criterion
Qualifies_NoBaseName(match, station, threshold) ==
    LET code_intersection == SetOf(match.codes) \cap SetOf(station.mrt_codes)
        dist == haversine_distance(calculate_centroid(match.exits),
                                   calculate_centroid(station.exits))
    IN  \/ code_intersection # {} /\ DistLess(dist, threshold)
        \/ match.official_name = station.official_name /\ DistLess(dist, NameThreshold)

\* the criteria with distance bounds that admit the limit itself
Qualifies_Inclusive(match, station, threshold) ==
    LET code_intersection == SetOf(match.codes) \cap SetOf(station.mrt_codes)
        dist == haversine_distance(calculate_centroid(match.exits),
                                   calculate_centroid(station.exits))
        same_base_name ==
            _get_base_name(match.official_name) = _get_base_name(station.official_name)
    IN  \/ code_intersection # {} /\ DistLess(dist, threshold + 1)
        \/ match.official_name = station.official_name /\ DistLess(dist, NameThreshold + 1)
        \/ same_base_name /\ DistLess(dist, threshold + 1)

\* the criteria with a bound for identical names that reaches beyond the
\* spatial threshold
Qualifies_WideName(match, station, threshold) ==
    LET code_intersection == SetOf(match.codes) \cap SetOf(station.mrt_codes)
        dist == haversine_distance(calculate_centroid(match.exits),
                                   calculate_centroid(station.exits))
        same_base_name ==
            _get_base_name(match.official_name) = _get_base_name(station.official_name)
    IN  \/ code_intersection # {} /\ DistLess(dist, threshold)
        \/ match.official_name = station.official_name
               /\ DistLess(dist, NameThreshold + threshold)
        \/ same_base_name /\ DistLess(dist, threshold)

\* lines 26-39: the three merge criteria of one match against one station
Qualifies(match, station, threshold) ==
    LET code_intersection == SetOf(match.codes) \cap SetOf(station.mrt_codes)
        dist == haversine_distance(calculate_centroid(match.exits),
                                   calculate_centroid(station.exits))
        same_base_name ==
            _get_base_name(match.official_name) = _get_base_name(station.official_name)
    IN  \/ code_intersection # {} /\ DistLess(dist, threshold)
        \/ match.official_name = station.official_name /\ DistLess(dist, NameThreshold)
        \/ same_base_name /\ DistLess(dist, threshold)

\* the loops of lines 47-53 and 66-72: append each exit whose normalised code is new
RECURSIVE AppendUnseen(_, _, _)
AppendUnseen(exits, seen, todo) ==
    IF todo = << >> THEN exits
    ELSE LET norm_code == _normalize_exit_code(Head(todo).exit_code)
         IN  IF norm_code \notin seen
             THEN AppendUnseen(Append(exits, [Head(todo) EXCEPT !.exit_code = norm_code]),
                               seen \cup { norm_code }, Tail(todo))
             ELSE AppendUnseen(exits, seen, Tail(todo))

\* a merge that leaves the station's codes as they were
MergeInto_KeepCodes(station, match) ==
    LET existing_exit_codes ==
            { _normalize_exit_code(station.exits[k].exit_code) : k \in DOMAIN station.exits }
    IN  [official_name |-> station.official_name,
         mrt_codes |-> station.mrt_codes,
         exits |-> AppendUnseen(station.exits, existing_exit_codes, match.exits)]

\* a merge that takes the codes and drops the exits of the match
MergeInto_NoExits(station, match) ==
    [official_name |-> station.official_name,
     mrt_codes |-> SortedList(SetOf(station.mrt_codes) \cup SetOf(match.codes)),
     exits |-> station.exits]

\* lines 41-53: merge a match into an existing station
MergeInto(station, match) ==
    LET existing_exit_codes ==
            { _normalize_exit_code(station.exits[k].exit_code) : k \in DOMAIN station.exits }
    IN  [official_name |-> station.official_name,
         mrt_codes |-> SortedList(SetOf(station.mrt_codes) \cup SetOf(match.codes)),
         exits |-> AppendUnseen(station.exits, existing_exit_codes, match.exits)]

\* lines 58-72: the entry created for a match that joins no station
NewEntry(match) ==
    [official_name |-> match.official_name,
     mrt_codes |-> match.codes,
     exits |-> AppendUnseen(<< >>, {}, match.exits)]

\* the stations of the list that the match may be merged into
Candidates(match, stations, threshold) ==
    { k \in DOMAIN stations : Qualifies(match, stations[k], threshold) }

\* a scan that goes on to the last such station
FirstCandidate_Latest(match, stations, threshold) ==
    LET c == Candidates(match, stations, threshold)
    IN  CHOOSE k \in c : \A j \in c : k >= j

\* the for loop of line 25 stops at the first such station
FirstCandidate(match, stations, threshold) ==
    LET c == Candidates(match, stations, threshold)
    IN  CHOOSE k \in c : \A j \in c : k <= j

\* one turn of the loop of line 20 that ends in the merge
MergeMatch ==
    /\ pc = "loop"
    /\ idx <= Len(raw_matches)
    /\ Candidates(raw_matches[idx], consolidated, spatial_threshold) # {}
    /\ LET match == raw_matches[idx]
           k == FirstCandidate(match, consolidated, spatial_threshold)
       IN  /\ consolidated' = [consolidated EXCEPT ![k] = MergeInto(@, match)]
           /\ absorbed' = [absorbed EXCEPT ![k] = Append(@, idx)]
    /\ previous' = consolidated
    /\ idx' = idx + 1
    /\ UNCHANGED <<raw_matches, spatial_threshold, pc>>
    /\ UNCHANGED <<normalizeVars, extractVars, matchVars, pipelineVars, enrichVars, loadVars,
                 stepVars, correctVars, baseVars>>

\* one turn of the loop of line 20 with found_existing left False
AppendMatch ==
    /\ pc = "loop"
    /\ idx <= Len(raw_matches)
    /\ Candidates(raw_matches[idx], consolidated, spatial_threshold) = {}
    /\ consolidated' = Append(consolidated, NewEntry(raw_matches[idx]))
    /\ absorbed' = Append(absorbed, << idx >>)
    /\ previous' = consolidated
    /\ idx' = idx + 1
    /\ UNCHANGED <<raw_matches, spatial_threshold, pc>>
    /\ UNCHANGED <<normalizeVars, extractVars, matchVars, pipelineVars, enrichVars, loadVars,
                 stepVars, correctVars, baseVars>>

\* lines 75-79: the exits of every station are sorted and the list is returned
SortAndReturn ==
    /\ pc = "loop"
    /\ idx > Len(raw_matches)
    /\ consolidated' =
           [ k \in DOMAIN consolidated |->
               [consolidated[k] EXCEPT !.exits = SortedExits(@)] ]
    /\ pc' = "done"
    /\ UNCHANGED <<raw_matches, spatial_threshold, idx, absorbed, previous>>
    /\ UNCHANGED <<normalizeVars, extractVars, matchVars, pipelineVars, enrichVars, loadVars,
                 stepVars, correctVars, baseVars>>

----------------------------------------------------------------------------
(* Inputs of the consolidation runs *)

MaxMatches == 3
MaxExits == 2
MaxTotalExits == 4

BUKIT_PANJANG_MRT ==
    << "B", "U", "K", "I", "T", " ", "P", "A", "N", "J", "A", "N", "G", " ",
       "M", "R", "T", " ", "S", "T", "A", "T", "I", "O", "N" >>
BUKIT_PANJANG_LRT ==
    << "B", "U", "K", "I", "T", " ", "P", "A", "N", "J", "A", "N", "G", " ",
       "L", "R", "T", " ", "S", "T", "A", "T", "I", "O", "N" >>
YISHUN_MRT ==
    << "Y", "I", "S", "H", "U", "N", " ", "M", "R", "T", " ", "S", "T", "A",
       "T", "I", "O", "N" >>
KHATIB_MRT ==
    << "K", "H", "A", "T", "I", "B", " ", "M", "R", "T", " ", "S", "T", "A",
       "T", "I", "O", "N" >>
DT1 == << "D", "T", "1" >>
BP1 == << "B", "P", "1" >>
NS13 == << "N", "S", "1", "3" >>
NS14 == << "N", "S", "1", "4" >>

Exit(c, lat) == [exit_code |-> c, lat |-> lat, lng |-> 0]

\* Reports of interchanges and neighbours: a name, its codes, and one exit
Reports ==
    { [official_name |-> BUKIT_PANJANG_MRT, codes |-> << DT1 >>, label |-> << "A" >>],
      [official_name |-> BUKIT_PANJANG_LRT, codes |-> << BP1 >>, label |-> << "B" >>],
      [official_name |-> YISHUN_MRT, codes |-> << NS13 >>, label |-> << "A" >>],
      [official_name |-> KHATIB_MRT, codes |-> << NS13, NS14 >>, label |-> << "B" >>] }

\* metres along the meridian
Positions == { 0, 500, 800, 5000 }

MergeMatches ==
    { [official_name |-> r.official_name, codes |-> r.codes,
       exits |-> << Exit(r.label, p) >>] : r \in Reports, p \in Positions }

MergeInputs == UNION { [1..n -> MergeMatches] : n \in 1..MaxMatches }

\* Exit labels as the feed may give them
ExitCodes ==
    { << "B" >>, << "1", "0" >>, << "A" >>, << "2" >>, << "a" >>,
      << "E", "x", "i", "t", " ", "A" >>, << "A", "\n", "B" >> }

ExitCodeLists == UNION { [1..n -> ExitCodes] : n \in 1..MaxExits }

\* One station reported once or twice, with at most MaxTotalExits exits in all;
\* every exit has its own coordinates
ExitMatch(cs, m) ==
    [official_name |-> YISHUN_MRT, codes |-> << NS13 >>,
     exits |-> [ e \in DOMAIN cs |-> Exit(cs[e], 100 * (m - 1) + 10 * (e - 1)) ]]

ExitInput ==
    \/ \E a \in ExitCodeLists : raw_matches = << ExitMatch(a, 1) >>
    \/ \E a \in ExitCodeLists, b \in ExitCodeLists :
          /\ Len(a) + Len(b) <= MaxTotalExits
          /\ raw_matches = << ExitMatch(a, 1), ExitMatch(b, 2) >>

StartConsolidate ==
    /\ (raw_matches \in MergeInputs \/ ExitInput)
    /\ spatial_threshold = DefaultThreshold
    /\ consolidated = << >>
    /\ idx = 1
    /\ pc = "loop"
    /\ absorbed = << >>
    /\ previous = << >>

IdleNormalize ==
    /\ code = << >>
    /\ norm1 = NoText
    /\ norm2 = NoText
    /\ npc = "idle"

IdleExtract ==
    /\ station_code_prefixes = << >>
    /\ code_text = << >>
    /\ found = {}
    /\ xpc = "idle"

IdleMatch ==
    /\ dg_name = << >>
    /\ dg_exits = << >>
    /\ search_results = << >>
    /\ nearby_results = << >>
    /\ match_result = [kind |-> "None"]
    /\ mpc = "idle"

IdlePipeline ==
    /\ dg_groups = << >>
    /\ group_idx = 0
    /\ outcomes = << >>
    /\ caller = "none"
    /\ ppc = "idle"

IdleEnrich ==
    /\ input_stations = << >>
    /\ checkpoint = [kind |-> "None"]
    /\ resume_mode = FALSE
    /\ retry_failed = FALSE
    /\ enrich_results = << >>
    /\ stations_to_process = << >>
    /\ station_idx = 0
    /\ extracted = {}
    /\ epc = "idle"
    /\ saved = [kind |-> "None"]
    /\ retries = 0

IdleLoad ==
    /\ main_file = [kind |-> "absent"]
    /\ backup_file = [kind |-> "absent"]
    /\ enrichment_file = [kind |-> "absent"]
    /\ loaded = [kind |-> "None"]
    /\ loaded_from = "none"
    /\ lpc = "idle"

IdleSteps ==
    /\ calls = << >>
    /\ scan_idx = 0
    /\ accum = [kind |-> "None"]
    /\ spc = "idle"

IdleCorrect ==
    /\ stage1_stations = << >>
    /\ corrected = << >>
    /\ cpc = "idle"

IdleBase ==
    /\ name_a = << >>
    /\ name_b = << >>
    /\ base_a = NoText
    /\ base_b = NoText
    /\ bpc = "idle"

Init ==
    StartConsolidate /\ IdleNormalize /\ IdleExtract /\ IdleMatch /\ IdlePipeline /\ IdleEnrich
        /\ IdleLoad /\ IdleSteps /\ IdleCorrect /\ IdleBase

Next == MergeMatch \/ AppendMatch \/ SortAndReturn

Spec == Init /\ [][Next]_vars

----------------------------------------------------------------------------
(* Inputs of the normalisation runs: texts made of at most MaxTokens pieces *)

MaxTokens == 4

Tokens ==
    { << "E", "X", "I", "T" >>, << "E", "x", "i", "t" >>, << "e", "x", "i", "t" >>,
      << "E", "X" >>, << " " >>, << " ", " ", " " >>, << "\n" >>,
      << "A" >>, << "a" >>, << "b" >>, << "1" >> }

RECURSIVE Concat(_)
Concat(pieces) == IF pieces = << >> THEN << >> ELSE Head(pieces) \o Concat(Tail(pieces))

CodeInput ==
    \E n \in 0..MaxTokens : \E p \in [1..n -> Tokens] : code = Concat(p)

StartNormalize ==
    /\ CodeInput
    /\ norm1 = NoText
    /\ norm2 = NoText
    /\ npc = "start"

\* norm = self._normalize_exit_code(code)
Normalize ==
    /\ npc = "start"
    /\ norm1' = _normalize_exit_code(code)
    /\ npc' = "once"
    /\ UNCHANGED <<code, norm2>>
    /\ UNCHANGED <<consolidateVars, extractVars, matchVars, pipelineVars, enrichVars, loadVars,
                 stepVars, correctVars, baseVars>>

\* the normalised code is normalised again, as consolidate does with stored exits
NormalizeAgain ==
    /\ npc = "once"
    /\ norm2' = _normalize_exit_code(norm1)
    /\ npc' = "twice"
    /\ UNCHANGED <<code, norm1>>
    /\ UNCHANGED <<consolidateVars, extractVars, matchVars, pipelineVars, enrichVars, loadVars,
                 stepVars, correctVars, baseVars>>

IdleConsolidate ==
    /\ raw_matches = << >>
    /\ spatial_threshold = 0
    /\ consolidated = << >>
    /\ idx = 0
    /\ pc = "idle"
    /\ absorbed = << >>
    /\ previous = << >>

NextNormalize == Normalize \/ NormalizeAgain

InitNormalize ==
    StartNormalize /\ IdleConsolidate /\ IdleExtract /\ IdleMatch /\ IdlePipeline /\ IdleEnrich
        /\ IdleLoad /\ IdleSteps /\ IdleCorrect /\ IdleBase

SpecNormalize == InitNormalize /\ [][NextNormalize]_vars

----------------------------------------------------------------------------
(* MatchingEngine._extract_codes: re.findall(code_regex, str(text).upper())  *)
(* with code_regex = \b(?:P1|P2|...)\d*\b                                    *)

NS == << "N", "S" >>
BP == << "B", "P" >>
STC == << "S", "T", "C" >>

default_prefixes ==
    << NS, << "E", "W" >>, << "N", "E" >>, << "C", "C" >>, << "D", "T" >>,
       << "T", "E" >>, << "C", "G" >>, << "C", "E" >>,
       BP, << "S", "W" >>, << "S", "E" >>, << "P", "W" >>, << "P", "E" >>,
       STC, << "P", "T", "C" >>,
       << "C", "R" >>, << "J", "S" >>, << "J", "W" >>, << "J", "E" >> >>

\* the alternatives of code_regex, in order
prefix_pattern ==
    IF station_code_prefixes # << >> THEN station_code_prefixes ELSE default_prefixes

IsLetter(c) ==
    \/ Ord(c) >= Ord("A") /\ Ord(c) <= Ord("Z")
    \/ Ord(c) >= Ord("a") /\ Ord(c) <= Ord("z")

\* the regular expression class \w, one character
IsWordChar(c) == IsLetter(c) \/ IsDigitChar(c) \/ c = "_"

\* \b between s[k] and s[k + 1] (k = 0: before the text, k = Len(s): after it)
WordBoundary(s, k) ==
    (k >= 1 /\ IsWordChar(s[k])) # (k < Len(s) /\ IsWordChar(s[k + 1]))

\* the positions where (?:P1|P2|...) can end when it starts at s[k]
PrefixEnds(s, k) ==
    { k + Len(prefix_pattern[i]) - 1 : i \in
        { j \in DOMAIN prefix_pattern :
            /\ k + Len(prefix_pattern[j]) - 1 <= Len(s)
            /\ SubSeq(s, k, k + Len(prefix_pattern[j]) - 1) = prefix_pattern[j] } }

\* the positions where \d*\b can end after a prefix that ends at s[j]
DigitsEnds(s, j) ==
    { e \in j..Len(s) : (\A d \in (j + 1)..e : IsDigitChar(s[d])) /\ WordBoundary(s, e) }

\* a plausible slip: the pattern [A-Z]{1,3}\d+ of OneMapFetcher.fetch_all_mrt_stations
MatchEnds_AnyLetters(s, k) ==
    { e \in k..Len(s) :
        \E j \in k..(e - 1) :
            /\ j - k + 1 <= Len(STC)
            /\ \A l \in k..j : IsLetter(s[l])
            /\ \A d \in (j + 1)..e : IsDigitChar(s[d])
            /\ (e = Len(s) \/ ~IsDigitChar(s[e + 1])) }

\* the positions where a match of code_regex that starts at s[k] can end
MatchEnds(s, k) ==
    IF WordBoundary(s, k - 1)
    THEN UNION { DigitsEnds(s, j) : j \in PrefixEnds(s, k) }
    ELSE {}

Max(S) == CHOOSE m \in S : \A n \in S : n <= m

\* re.findall: the non-overlapping matches, scanning from s[k] rightwards
RECURSIVE FindAll(_, _)
FindAll(s, k) ==
    IF k > Len(s) THEN << >>
    ELSE IF MatchEnds(s, k) # {}
         THEN << SubSeq(s, k, Max(MatchEnds(s, k))) >> \o FindAll(s, Max(MatchEnds(s, k)) + 1)
         ELSE FindAll(s, k + 1)

_extract_codes(t) == SetOf(FindAll(Upper(t), 1))

----------------------------------------------------------------------------
(* Inputs of the extraction runs: texts made of at most MaxPieces pieces *)

MaxPieces == 3

Pieces ==
    { NS \o << "1", "3" >>, << "n", "s" >>, << "A", "1" >>, << "b", "2" >>,
      BP, STC, << "A" >>, << "1" >>, << " " >>, << "(" >>, << "/" >>, << "_" >> }

\* the default configuration, and a configured list of prefixes
PrefixConfigs == { << >>, << BP, STC >> }

StartExtract ==
    /\ station_code_prefixes \in PrefixConfigs
    /\ \E n \in 0..MaxPieces : \E p \in [1..n -> Pieces] : code_text = Concat(p)
    /\ found = {}
    /\ xpc = "start"

\* return set(re.findall(self.code_regex, str(text).upper()))
ExtractCodes ==
    /\ xpc = "start"
    /\ found' = _extract_codes(code_text)
    /\ xpc' = "done"
    /\ UNCHANGED <<station_code_prefixes, code_text>>
    /\ UNCHANGED <<consolidateVars, normalizeVars, matchVars, pipelineVars, enrichVars, loadVars,
                 stepVars, correctVars, baseVars>>

NextExtract == ExtractCodes

InitExtract ==
    StartExtract /\ IdleConsolidate /\ IdleNormalize /\ IdleMatch /\ IdlePipeline /\ IdleEnrich
        /\ IdleLoad /\ IdleSteps /\ IdleCorrect /\ IdleBase

SpecExtract == InitExtract /\ [][NextExtract]_vars

----------------------------------------------------------------------------
(* MatchingEngine.match_station                                             *)
(*                                                                          *)
(* A search candidate is a record with the fields BUILDING, LATITUDE and    *)
(* LONGITUDE of the service's reply; `missing' names the fields that are    *)
(* absent or unusable, for which res[...], .upper() or float() raises.      *)
(* `score' is the value fuzz.WRatio(datagov_name, name) takes for it.       *)

DefaultEpsilon == 800

\* the values match_station can end with
Raised == [kind |-> "raised"]
NoMatch == [kind |-> "None"]

\* the least position of ")" that \(.*?\) can reach from the "(" at s[1], or 0
ClosingParen(s) ==
    LET closers == { j \in 2..Len(s) : s[j] = ")" /\ \A i \in 2..(j - 1) : s[i] # "\n" }
    IN  IF closers = {} THEN 0 ELSE CHOOSE j \in closers : \A i \in closers : j <= i

ReSubParens_Keep(s) == s

\* re.sub(r'\(.*?\)', '', s)
RECURSIVE ReSubParens(_)
ReSubParens(s) ==
    IF s = << >> THEN << >>
    ELSE IF Head(s) = "(" /\ ClosingParen(s) # 0
         THEN ReSubParens(SubSeq(s, ClosingParen(s) + 1, Len(s)))
         ELSE << Head(s) >> \o ReSubParens(Tail(s))

\* the character class [A-Z0-9]
IsUpperOrDigit(c) == IsDigitChar(c) \/ (Ord(c) >= Ord("A") /\ Ord(c) <= Ord("Z"))

\* the longest run matched by [A-Z0-9]* from position k on
RECURSIVE SkipUpperOrDigit(_, _)
SkipUpperOrDigit(s, k) ==
    IF k <= Len(s) /\ IsUpperOrDigit(s[k]) THEN SkipUpperOrDigit(s, k + 1) ELSE k

\* where a match of \s+EXIT\s+[A-Z0-9]+ that starts at s[1] ends, or 0
ExitRefEnd(s) ==
    LET a == SkipSpace(s, 1)
        b == SkipSpace(s, a + Len(EXIT))
        c == SkipUpperOrDigit(s, b)
    IN  IF /\ a > 1
           /\ a + Len(EXIT) - 1 <= Len(s)
           /\ SubSeq(s, a, a + Len(EXIT) - 1) = EXIT
           /\ b > a + Len(EXIT)
           /\ c > b
        THEN c - 1 ELSE 0

\* re.sub(r'\s+EXIT\s+[A-Z0-9]+', '', s)
RECURSIVE ReSubExitRef(_)
ReSubExitRef(s) ==
    IF s = << >> THEN << >>
    ELSE IF ExitRefEnd(s) # 0
         THEN ReSubExitRef(SubSeq(s, ExitRefEnd(s) + 1, Len(s)))
         ELSE << Head(s) >> \o ReSubExitRef(Tail(s))

\* lines 52-53: brackets and exit info cleaned from a candidate's name
CleanName(name) == Strip(ReSubExitRef(Strip(ReSubParens(name))))

\* lines 42-43 raise for a candidate with a missing or unusable field
WellFormed(res) == res.missing = {}

\* line 43: the coordinates of a candidate, as a point of the meridian
CoordsOf(res) ==
    [lat |-> [num |-> res.LATITUDE, den |-> 1], lng |-> [num |-> res.LONGITUDE, den |-> 1]]

InRange_Strict(dist, epsilon) == dist.num < epsilon * dist.den

\* line 46: dist <= self.epsilon
InRange(dist, epsilon) == dist.num <= epsilon * dist.den

\* lines 37-39: the accumulators before the loop
NoCandidateYet == [codes |-> {}, best_name |-> NoText, highest_score |-> -1]

\* line 6: the default of the constructor's threshold, kept in self.threshold
FuzzyThreshold == 70

\* a scan in which a candidate scoring below the threshold supplies no name
TakeCandidate_Gated(acc, centroid, res, epsilon) ==
    LET name == Upper(res.BUILDING)
        dist == haversine_distance(centroid, CoordsOf(res))
        takes == res.score > acc.highest_score /\ res.score >= FuzzyThreshold
    IN  IF InRange(dist, epsilon)
        THEN [codes |-> acc.codes \cup _extract_codes(name),
              best_name |-> IF takes THEN CleanName(name) ELSE acc.best_name,
              highest_score |-> IF takes THEN res.score ELSE acc.highest_score]
        ELSE acc

\* lines 44-54: one well-formed candidate taken into the accumulators
TakeCandidate(acc, centroid, res, epsilon) ==
    LET name == Upper(res.BUILDING)
        dist == haversine_distance(centroid, CoordsOf(res))
    IN  IF InRange(dist, epsilon)
        THEN [codes |-> acc.codes \cup _extract_codes(name),
              best_name |-> IF res.score > acc.highest_score
                            THEN CleanName(name) ELSE acc.best_name,
              highest_score |-> IF res.score > acc.highest_score
                                THEN res.score ELSE acc.highest_score]
        ELSE acc

\* lines 41-54: the loop over the candidates from results[k] on; Raised when
\* the loop reaches a candidate whose fields cannot be read
RECURSIVE ScanResults(_, _, _, _, _)
ScanResults(acc, centroid, results, k, epsilon) ==
    IF k > Len(results) THEN acc
    ELSE IF ~WellFormed(results[k]) THEN Raised
    ELSE ScanResults(TakeCandidate(acc, centroid, results[k], epsilon),
                     centroid, results, k + 1, epsilon)

\* lines 57-62: the nearest-station fallback, used when no code was found
Fallback(acc, nearby) ==
    IF acc.codes = {} /\ nearby # << >>
    THEN [acc EXCEPT !.codes = _extract_codes(nearby[1].MRT_CA_CODE),
                     !.best_name = Upper(nearby[1].MRT_STATION_NAME)]
    ELSE acc

\* every group gets a result, with an empty list of codes if none was found
Resolve_AlwaysResult(acc, datagov_name, centroid) ==
    [kind |-> "result",
     official_name |-> IF acc.best_name \notin { NoText, << >> }
                       THEN acc.best_name ELSE Upper(datagov_name),
     codes |-> SortedList(acc.codes),
     centroid |-> centroid]

\* lines 64-71
Resolve(acc, datagov_name, centroid) ==
    IF acc.codes = {} THEN NoMatch
    ELSE [kind |-> "result",
          official_name |-> IF acc.best_name \notin { NoText, << >> }
                            THEN acc.best_name ELSE Upper(datagov_name),
          codes |-> SortedList(acc.codes),
          centroid |-> centroid]

\* match_station(datagov_name, exits), given what the two services return
match_station(datagov_name, exits, results, nearby, epsilon) ==
    LET centroid == calculate_centroid(exits)
        scanned == ScanResults(NoCandidateYet, centroid, results, 1, epsilon)
    IN  IF scanned = Raised THEN Raised
        ELSE Resolve(Fallback(scanned, nearby), datagov_name, centroid)

----------------------------------------------------------------------------
(* Inputs of the matching runs: one group, at most MaxCandidates candidates *)

MaxCandidates == 2

Yishun == << "Y", "i", "s", "h", "u", "n" >>
EW24 == << "E", "W", "2", "4" >>

\* names as the search service gives them
YISHUN_MRT_NS13 == YISHUN_MRT \o << " ", "(" >> \o NS13 \o << ")" >>
YISHUN_MRT_NS13_EXIT_A == YISHUN_MRT_NS13 \o << " ", "E", "X", "I", "T", " ", "A" >>
CodesOnly == << "(", "n", "s", "1", "4", "/" >> \o EW24 \o << ")" >>

CandidateNames == { YISHUN_MRT_NS13_EXIT_A, YISHUN_MRT, CodesOnly }

\* metres along the meridian: at epsilon from the first exit, and one metre beyond
CandidatePositions == { DefaultEpsilon, DefaultEpsilon + 1 }

\* values of fuzz.WRatio
Scores == { 50, 90 }

Candidate(name, lat, score) ==
    [BUILDING |-> name, LATITUDE |-> lat, LONGITUDE |-> 0, score |-> score, missing |-> {}]

\* a reply without BUILDING, and one whose LATITUDE is not a number
Malformed ==
    { [BUILDING |-> << >>, LATITUDE |-> 0, LONGITUDE |-> 0, score |-> 0,
       missing |-> { "BUILDING" }],
      [BUILDING |-> YISHUN_MRT_NS13, LATITUDE |-> 0, LONGITUDE |-> 0, score |-> 0,
       missing |-> { "LATITUDE" }] }

SearchCandidates ==
    { Candidate(n, p, w) : n \in CandidateNames, p \in CandidatePositions, w \in Scores }
        \cup Malformed

NearbyStop(c, name) == [MRT_CA_CODE |-> c, MRT_STATION_NAME |-> name]

NearbyReplies ==
    { << >>,
      << NearbyStop(NS13, Yishun) >>,
      << NearbyStop(NS13, YISHUN_MRT_NS13) >>,
      << NearbyStop(<< >>, << >>), NearbyStop(NS14, Yishun) >> }

\* one exit, or two exits one metre apart
GroupExits == { << Exit(<< "A" >>, 0) >>, << Exit(<< "A" >>, 0), Exit(<< "B" >>, 1) >> }

StartMatch ==
    /\ dg_name = Yishun
    /\ dg_exits \in GroupExits
    /\ \E n \in 0..MaxCandidates : search_results \in [1..n -> SearchCandidates]
    /\ nearby_results \in NearbyReplies
    /\ match_result = NoMatch
    /\ mpc = "start"

\* match_station returns a result or None
MatchReturns ==
    /\ mpc = "start"
    /\ LET r == match_station(dg_name, dg_exits, search_results, nearby_results,
                              DefaultEpsilon)
       IN  r # Raised /\ match_result' = r
    /\ mpc' = "returned"
    /\ UNCHANGED <<dg_name, dg_exits, search_results, nearby_results>>
    /\ UNCHANGED <<consolidateVars, normalizeVars, extractVars, pipelineVars, enrichVars, loadVars,
                 stepVars, correctVars, baseVars>>

\* match_station ends with the exception of lines 42-43
MatchRaises ==
    /\ mpc = "start"
    /\ match_station(dg_name, dg_exits, search_results, nearby_results, DefaultEpsilon) = Raised
    /\ match_result' = Raised
    /\ mpc' = "raised"
    /\ UNCHANGED <<dg_name, dg_exits, search_results, nearby_results>>
    /\ UNCHANGED <<consolidateVars, normalizeVars, extractVars, pipelineVars, enrichVars, loadVars,
                 stepVars, correctVars, baseVars>>

NextMatch == MatchReturns \/ MatchRaises

InitMatch ==
    StartMatch /\ IdleConsolidate /\ IdleNormalize /\ IdleExtract /\ IdlePipeline /\ IdleEnrich
        /\ IdleLoad /\ IdleSteps /\ IdleCorrect /\ IdleBase

SpecMatch == InitMatch /\ [][NextMatch]_vars

----------------------------------------------------------------------------
(* MatchingEngine.match_station, statement by statement: the calls of the    *)
(* two collaborators (onemap.search_onemap, onemap.get_nearby_mrt) are       *)
(* recorded in `calls' as they are made                                      *)

\* the fallback is consulted for every group
NeedsFallback_Always(found_codes) == TRUE

\* line 57: if not all_found_codes
NeedsFallback(found_codes) == found_codes = {}

\* lines 34-39: the centroid is computed, the search is called, the
\* accumulators are set up
CallSearch ==
    /\ spc = "search"
    /\ calls' = Append(calls, "search")
    /\ accum' = NoCandidateYet
    /\ scan_idx' = 1
    /\ spc' = "scan"
    /\ UNCHANGED matchVars
    /\ UNCHANGED <<consolidateVars, normalizeVars, extractVars, pipelineVars, enrichVars,
                   loadVars, correctVars, baseVars>>

\* lines 41-54: one turn of the loop over the results
ScanCandidate ==
    /\ spc = "scan"
    /\ scan_idx <= Len(search_results)
    /\ WellFormed(search_results[scan_idx])
    /\ accum' = TakeCandidate(accum, calculate_centroid(dg_exits), search_results[scan_idx],
                              DefaultEpsilon)
    /\ scan_idx' = scan_idx + 1
    /\ UNCHANGED <<calls, spc>>
    /\ UNCHANGED matchVars
    /\ UNCHANGED <<consolidateVars, normalizeVars, extractVars, pipelineVars, enrichVars,
                   loadVars, correctVars, baseVars>>

\* lines 42-43 raise for a result whose fields cannot be read
ScanRaises ==
    /\ spc = "scan"
    /\ scan_idx <= Len(search_results)
    /\ ~WellFormed(search_results[scan_idx])
    /\ match_result' = Raised
    /\ spc' = "raised"
    /\ UNCHANGED <<calls, scan_idx, accum>>
    /\ UNCHANGED <<dg_name, dg_exits, search_results, nearby_results, mpc>>
    /\ UNCHANGED <<consolidateVars, normalizeVars, extractVars, pipelineVars, enrichVars,
                   loadVars, correctVars, baseVars>>

\* lines 57-62: no code was found, the nearest-station service is called
CallNearby ==
    /\ spc = "scan"
    /\ scan_idx > Len(search_results)
    /\ NeedsFallback(accum.codes)
    /\ calls' = Append(calls, "nearby")
    /\ accum' = Fallback(accum, nearby_results)
    /\ spc' = "return"
    /\ UNCHANGED scan_idx
    /\ UNCHANGED matchVars
    /\ UNCHANGED <<consolidateVars, normalizeVars, extractVars, pipelineVars, enrichVars,
                   loadVars, correctVars, baseVars>>

\* line 57 with codes at hand: the fallback is passed over
SkipNearby ==
    /\ spc = "scan"
    /\ scan_idx > Len(search_results)
    /\ ~NeedsFallback(accum.codes)
    /\ spc' = "return"
    /\ UNCHANGED <<calls, scan_idx, accum>>
    /\ UNCHANGED matchVars
    /\ UNCHANGED <<consolidateVars, normalizeVars, extractVars, pipelineVars, enrichVars,
                   loadVars, correctVars, baseVars>>

\* lines 64-71
ReturnMatch ==
    /\ spc = "return"
    /\ match_result' = Resolve(accum, dg_name, calculate_centroid(dg_exits))
    /\ spc' = "returned"
    /\ UNCHANGED <<calls, scan_idx, accum>>
    /\ UNCHANGED <<dg_name, dg_exits, search_results, nearby_results, mpc>>
    /\ UNCHANGED <<consolidateVars, normalizeVars, extractVars, pipelineVars, enrichVars,
                   loadVars, correctVars, baseVars>>

\* the inputs of the matching runs, before the first statement
StartSteps ==
    /\ dg_name = Yishun
    /\ dg_exits \in GroupExits
    /\ \E n \in 0..MaxCandidates : search_results \in [1..n -> SearchCandidates]
    /\ nearby_results \in NearbyReplies
    /\ match_result = NoMatch
    /\ mpc = "steps"
    /\ calls = << >>
    /\ scan_idx = 0
    /\ accum = NoCandidateYet
    /\ spc = "search"

NextSteps ==
    CallSearch \/ ScanCandidate \/ ScanRaises \/ CallNearby \/ SkipNearby \/ ReturnMatch

InitSteps ==
    StartSteps /\ IdleConsolidate /\ IdleNormalize /\ IdleExtract /\ IdlePipeline /\ IdleEnrich
        /\ IdleLoad /\ IdleCorrect /\ IdleBase

SpecSteps == InitSteps /\ [][NextSteps]_vars

----------------------------------------------------------------------------
(* main (src/main.py) and Stage1Ingestion._match_stations: every group is   *)
(* matched, the matches are collected and handed to consolidate             *)

\* the group at the position of the loop
Group == dg_groups[group_idx]

\* match_station for the group, given what the services return for it
MatchOf(g) == match_station(g.name, g.exits, g.results, g.nearby, DefaultEpsilon)

\* a loop that keeps an entry, without codes, for a group that has no result
CollectMatch_KeepUnmatched(matches, g, r) ==
    IF r # NoMatch
    THEN Append(matches, [official_name |-> r.official_name, codes |-> r.codes,
                          exits |-> g.exits])
    ELSE Append(matches, [official_name |-> Upper(g.name), codes |-> << >>,
                          exits |-> g.exits])

\* main.py lines 35-41, stage1_ingestion.py lines 132-136: if match_result: append
CollectMatch(matches, g, r) ==
    IF r # NoMatch
    THEN Append(matches, [official_name |-> r.official_name, codes |-> r.codes,
                          exits |-> g.exits])
    ELSE matches

PUNGGOL_MRT ==
    << "P", "U", "N", "G", "G", "O", "L", " ",
       "M", "R", "T", " ", "S", "T", "A", "T", "I", "O", "N" >>
CHOA_CHU_KANG_MRT ==
    << "C", "H", "O", "A", " ", "C", "H", "U", " ", "K", "A", "N", "G", " ",
       "M", "R", "T", " ", "S", "T", "A", "T", "I", "O", "N" >>
PTC == << "P", "T", "C" >>

\* stage1_ingestion.py lines 139-142, as pairs of name and code
LRT_CODES_PRE_CONSOLIDATION == << << PUNGGOL_MRT, PTC >>, << CHOA_CHU_KANG_MRT, BP1 >> >>

\* stage1_ingestion.py lines 143-148, for one match
AddLrtCode(match) ==
    LET hubs == { k \in DOMAIN LRT_CODES_PRE_CONSOLIDATION :
                    LRT_CODES_PRE_CONSOLIDATION[k][1] = match.official_name }
    IN  IF hubs = {} THEN match
        ELSE LET lrt_code == LRT_CODES_PRE_CONSOLIDATION[CHOOSE k \in hubs : TRUE][2]
             IN  IF lrt_code \notin SetOf(match.codes)
                 THEN [match EXCEPT !.codes = Append(@, lrt_code)]
                 ELSE match

\* the matches as the caller hands them to consolidate
HandedOver(matches) ==
    IF caller = "stage1" THEN [ k \in DOMAIN matches |-> AddLrtCode(matches[k]) ]
    ELSE matches

\* one turn of the loop over the groups in which match_station returns
MatchGroup ==
    /\ ppc = "matching"
    /\ group_idx <= Len(dg_groups)
    /\ LET r == MatchOf(Group)
       IN  /\ r # Raised
           /\ raw_matches' = CollectMatch(raw_matches, Group, r)
           /\ outcomes' = Append(outcomes, r)
    /\ group_idx' = group_idx + 1
    /\ UNCHANGED <<dg_groups, caller, ppc>>
    /\ UNCHANGED <<spatial_threshold, consolidated, idx, pc, absorbed, previous>>
    /\ UNCHANGED <<normalizeVars, extractVars, matchVars, enrichVars, loadVars,
                 stepVars, correctVars, baseVars>>

\* a turn in which match_station raises: neither caller catches the exception
MatchGroupRaises ==
    /\ ppc = "matching"
    /\ group_idx <= Len(dg_groups)
    /\ MatchOf(Group) = Raised
    /\ outcomes' = Append(outcomes, Raised)
    /\ ppc' = "aborted"
    /\ UNCHANGED <<dg_groups, group_idx, caller>>
    /\ UNCHANGED <<consolidateVars, normalizeVars, extractVars, matchVars, enrichVars, loadVars,
                 stepVars, correctVars, baseVars>>

\* main.py line 45, stage1_ingestion.py lines 138-152: consolidate is called
CallConsolidate ==
    /\ ppc = "matching"
    /\ group_idx > Len(dg_groups)
    /\ raw_matches' = HandedOver(raw_matches)
    /\ spatial_threshold' = DefaultThreshold
    /\ consolidated' = << >>
    /\ idx' = 1
    /\ pc' = "loop"
    /\ absorbed' = << >>
    /\ previous' = << >>
    /\ ppc' = "consolidating"
    /\ UNCHANGED <<dg_groups, group_idx, outcomes, caller>>
    /\ UNCHANGED <<normalizeVars, extractVars, matchVars, enrichVars, loadVars,
                 stepVars, correctVars, baseVars>>

----------------------------------------------------------------------------
(* Inputs of the pipeline runs: at most MaxGroups groups with distinct names *)

MaxGroups == 2

YISHUN == << "Y", "I", "S", "H", "U", "N" >>
NE17 == << "N", "E", "1", "7" >>
BP6 == << "B", "P", "6" >>

\* a group of the exit file: its name, the name and the code of its station in
\* the search service, and where its exit lies (metres along the meridian)
Places ==
    { [name |-> YISHUN, station |-> YISHUN_MRT, code |-> NS13, lat |-> 0],
      [name |-> BUKIT_PANJANG_MRT, station |-> BUKIT_PANJANG_MRT, code |-> DT1, lat |-> 5000],
      [name |-> BUKIT_PANJANG_LRT, station |-> BUKIT_PANJANG_LRT, code |-> BP6, lat |-> 5100],
      [name |-> PUNGGOL_MRT, station |-> PUNGGOL_MRT, code |-> NE17, lat |-> 10000] }

WithCode(q) == q.station \o << " ", "(" >> \o q.code \o << ")" >>

\* what the services may return for a group: the station with its code in the
\* name; the station under its bare name, with and without a nearest-station
\* result; a reply that cannot be read; the station with its code, out of range
Replies(q) ==
    { [results |-> << Candidate(WithCode(q), q.lat, 90) >>,
       nearby |-> << NearbyStop(NS14, KHATIB_MRT) >>],
      [results |-> << Candidate(q.station, q.lat, 90) >>, nearby |-> << >>],
      [results |-> << Candidate(q.station, q.lat, 90) >>,
       nearby |-> << NearbyStop(q.code, q.station) >>],
      [results |-> << [BUILDING |-> << >>, LATITUDE |-> 0, LONGITUDE |-> 0, score |-> 0,
                       missing |-> { "BUILDING" }] >>,
       nearby |-> << >>],
      [results |-> << Candidate(WithCode(q), q.lat + DefaultEpsilon + 1, 90) >>,
       nearby |-> << >>] }

GroupOf(q, reply) ==
    [name |-> q.name, exits |-> << Exit(<< "A" >>, q.lat) >>,
     results |-> reply.results, nearby |-> reply.nearby]

GroupInputs == UNION { { GroupOf(q, reply) : reply \in Replies(q) } : q \in Places }

\* the keys of a dict are distinct
DistinctNames(groups) ==
    \A i, j \in DOMAIN groups : groups[i].name = groups[j].name => i = j

StartPipeline ==
    /\ \E n \in 1..MaxGroups : dg_groups \in [1..n -> GroupInputs]
    /\ DistinctNames(dg_groups)
    /\ group_idx = 1
    /\ outcomes = << >>
    /\ caller \in { "main", "stage1" }
    /\ ppc = "matching"
    /\ raw_matches = << >>
    /\ spatial_threshold = DefaultThreshold
    /\ consolidated = << >>
    /\ idx = 0
    /\ pc = "idle"
    /\ absorbed = << >>
    /\ previous = << >>

NextPipeline ==
    MatchGroup \/ MatchGroupRaises \/ CallConsolidate
        \/ MergeMatch \/ AppendMatch \/ SortAndReturn

InitPipeline ==
    StartPipeline /\ IdleNormalize /\ IdleExtract /\ IdleMatch /\ IdleEnrich
        /\ IdleLoad /\ IdleSteps /\ IdleCorrect /\ IdleBase

SpecPipeline == InitPipeline /\ [][NextPipeline]_vars

----------------------------------------------------------------------------
(* Stage2Enrichment.execute (src/src/pipelines/stage2_enrichment.py)        *)
(*                                                                          *)
(* A station is its station_id. A dict keyed by station id is a function;   *)
(* the value "enriched" stands for a Stage2Station and "None" for None.     *)
(* A failure entry is a record with station_id and permanent, an entry of   *)
(* skipped_stations a record with station_id.                               *)

max_retries == 3

NoCheckpoint == [kind |-> "None"]

\* dict.pop(k, None) and d[k] = v
Pop(d, k) == [ x \in DOMAIN d \ { k } |-> d[x] ]
Put(d, k, v) == [ x \in DOMAIN d \cup { k } |-> IF x = k THEN v ELSE d[x] ]

\* the station ids of a list of entries
IdsOf(entries) == { entries[k].station_id : k \in DOMAIN entries }

\* list.remove(x): the first occurrence is removed
RECURSIVE Remove(_, _)
Remove(list, x) ==
    IF list = << >> THEN << >>
    ELSE IF Head(list) = x THEN Tail(list)
    ELSE << Head(list) >> \o Remove(Tail(list), x)

\* a list of entries without those of the station
Without(entries, station) == SelectSeq(entries, LAMBDA f : f.station_id # station)

Resuming == checkpoint # NoCheckpoint /\ resume_mode

\* lines 106-130: the ids that are not processed again
processed_ids ==
    IF ~Resuming THEN {}
    ELSE IF retry_failed
         THEN SetOf(checkpoint.processed_station_ids) \ IdsOf(checkpoint.failed_stations)
         ELSE SetOf(checkpoint.processed_station_ids)

permanently_failed_ids ==
    IF Resuming /\ ~retry_failed
    THEN { checkpoint.failed_stations[k].station_id :
             k \in { j \in DOMAIN checkpoint.failed_stations :
                        checkpoint.failed_stations[j].permanent } }
    ELSE {}

\* lines 132-162: the results dict before the loop
InitialResults ==
    IF ~Resuming
    THEN [stations |-> << >>, failed_stations |-> << >>, skipped_stations |-> << >>,
          processed_station_ids |-> << >>, retry_queue |-> << >>]
    ELSE LET failed_ids == IdsOf(checkpoint.failed_stations)
         IN  IF retry_failed
             THEN [stations |-> [ x \in DOMAIN checkpoint.stations \ failed_ids |->
                                    checkpoint.stations[x] ],
                   failed_stations |-> << >>,
                   skipped_stations |-> checkpoint.skipped_stations,
                   processed_station_ids |->
                       SelectSeq(checkpoint.processed_station_ids,
                                 LAMBDA sid : sid \notin failed_ids),
                   retry_queue |-> << >>]
             ELSE [stations |-> checkpoint.stations,
                   failed_stations |-> checkpoint.failed_stations,
                   skipped_stations |-> checkpoint.skipped_stations,
                   processed_station_ids |-> checkpoint.processed_station_ids,
                   retry_queue |-> << >>]

\* every input station is processed again, whatever the checkpoint says
ToProcess_All(stations) == stations

\* lines 165-168
ToProcess(stations) ==
    SelectSeq(stations,
              LAMBDA s : s \notin processed_ids /\ s \notin permanently_failed_ids)

\* what one call of _extract_station can do: return a Stage2Station, return
\* None (the station is not on Fandom), or raise
ExtractOutcomes == { "enriched", "None", "raise" }

\* a skip that leaves the other collections as they are
Skipped_KeepOthers(res, station) ==
    [res EXCEPT
        !.skipped_stations =
            IF station \in IdsOf(@) THEN @ ELSE Append(@, [station_id |-> station]),
        !.processed_station_ids = IF station \in SetOf(@) THEN @ ELSE Append(@, station)]

\* lines 213-239: _extract_station returned None
Skipped(res, station) ==
    [res EXCEPT
        !.skipped_stations =
            IF station \in IdsOf(@) THEN @ ELSE Append(@, [station_id |-> station]),
        !.stations = Pop(@, station),
        !.failed_stations = Without(@, station),
        !.processed_station_ids = IF station \in SetOf(@) THEN @ ELSE Append(@, station)]

\* lines 241-242: _extract_station returned a station
Succeeded(res, station) ==
    [res EXCEPT !.stations = Put(@, station, "enriched"),
                !.processed_station_ids = Append(@, station)]

\* lines 244-267: _extract_station raised; the first entry of the station is
\* updated if there is one
Failed(res, station) ==
    LET entries == { k \in DOMAIN res.failed_stations :
                       res.failed_stations[k].station_id = station }
        first == CHOOSE k \in entries : \A j \in entries : k <= j
    IN  [res EXCEPT
            !.failed_stations =
                IF entries # {} THEN [@ EXCEPT ![first].permanent = FALSE]
                ELSE Append(@, [station_id |-> station, permanent |-> FALSE]),
            !.retry_queue = Append(@, station),
            !.processed_station_ids = Append(@, station)]

\* lines 210-267: the results after the first call of _extract_station
AfterExtract(res, station, outcome) ==
    IF outcome = "None" THEN Skipped(res, station)
    ELSE IF outcome = "enriched" THEN Succeeded(res, station)
    ELSE Failed(res, station)

\* a retry that gives up after max_retries failures without marking the
\* station's entries permanent
Retried_GivesUp(res, station, attempts, attempt) ==
    LET decided == { k \in attempt..max_retries : attempts[k] # "raise" }
        first == CHOOSE k \in decided : \A j \in decided : k <= j
    IN  IF decided = {} THEN [res EXCEPT !.retry_queue = Remove(@, station)]
        ELSE [res EXCEPT !.stations = Put(@, station, attempts[first]),
                         !.retry_queue = Remove(@, station),
                         !.failed_stations = Without(@, station)]

\* lines 395-422: the attempts from the given one on; the first that does not
\* raise decides, and after max_retries failures the entries are made permanent
RECURSIVE Retried(_, _, _, _)
Retried(res, station, attempts, attempt) ==
    IF attempt > max_retries
    THEN [res EXCEPT
            !.failed_stations =
                [ k \in DOMAIN @ |->
                    IF @[k].station_id = station THEN [@[k] EXCEPT !.permanent = TRUE]
                    ELSE @[k] ],
            !.retry_queue = Remove(@, station)]
    ELSE IF attempts[attempt] = "raise" THEN Retried(res, station, attempts, attempt + 1)
    ELSE [res EXCEPT !.stations = Put(@, station, attempts[attempt]),
                     !.retry_queue = Remove(@, station),
                     !.failed_stations = Without(@, station)]

\* lines 379-422, for the batch [station]
_retry_failed_stations(res, station, attempts) ==
    IF station \notin SetOf(res.retry_queue) THEN res
    ELSE Retried(res, station, attempts, 1)

\* Stage2IncrementalOutput and Stage2Output take Stage2Station values only
Valid(res) == \A x \in DOMAIN res.stations : res.stations[x] # "None"

\* lines 104-168: the checkpoint is taken over and the stations are chosen
BeginExecute ==
    /\ epc = "start"
    /\ enrich_results' = InitialResults
    /\ stations_to_process' = ToProcess(input_stations)
    /\ station_idx' = 1
    /\ epc' = "loop"
    /\ UNCHANGED <<input_stations, checkpoint, resume_mode, retry_failed, extracted, saved,
                   retries>>
    /\ UNCHANGED <<consolidateVars, normalizeVars, extractVars, matchVars, pipelineVars, loadVars,
                 stepVars, correctVars, baseVars>>

\* lines 559-576: what _save_incremental_checkpoint writes, the fields of
\* Stage2IncrementalOutput
Written(res) ==
    [kind |-> "checkpoint", stations |-> res.stations,
     failed_stations |-> res.failed_stations,
     processed_station_ids |-> res.processed_station_ids]

\* a loop that saves the checkpoint after a skipped station as well
AfterStation_SaveAlways(res, outcome, before) ==
    IF Valid(res) THEN [epc |-> "loop", saved |-> Written(res)]
    ELSE [epc |-> "raised", saved |-> before]

\* lines 239, 274-275, 282-288: the `continue' of a skipped station passes over
\* the save; the save raises if a value is not a station, and so does the
\* save of the except clause, which leaves the file as it was
AfterStation(res, outcome, before) ==
    IF outcome = "None" THEN [epc |-> "loop", saved |-> before]
    ELSE IF Valid(res) THEN [epc |-> "loop", saved |-> Written(res)]
    ELSE [epc |-> "raised", saved |-> before]

\* lines 395-397: the calls of _extract_station the retry loop makes
RetriesMade(attempts) ==
    LET decided == { k \in DOMAIN attempts : attempts[k] # "raise" }
    IN  IF decided = {} THEN Len(attempts)
        ELSE CHOOSE k \in decided : \A j \in decided : k <= j

\* lines 210-278: one station is extracted, retried at once if that failed,
\* and the checkpoint is saved
ProcessStation ==
    /\ epc = "loop"
    /\ station_idx <= Len(stations_to_process)
    /\ \E outcome \in ExtractOutcomes, attempts \in [1..max_retries -> ExtractOutcomes] :
          LET station == stations_to_process[station_idx]
              res == _retry_failed_stations(AfterExtract(enrich_results, station, outcome),
                                            station, attempts)
              after == AfterStation(res, outcome, saved)
          IN  /\ enrich_results' = res
              /\ extracted' = extracted \cup { station }
              /\ retries' = IF outcome = "raise" THEN RetriesMade(attempts) ELSE 0
              /\ epc' = after.epc
              /\ saved' = after.saved
    /\ station_idx' = station_idx + 1
    /\ UNCHANGED <<input_stations, checkpoint, resume_mode, retry_failed, stations_to_process>>
    /\ UNCHANGED <<consolidateVars, normalizeVars, extractVars, matchVars, pipelineVars, loadVars,
                 stepVars, correctVars, baseVars>>

\* lines 186-208: the daily limit is reached before a station; the checkpoint
\* is saved and the partial results are returned
TimeoutReturn ==
    /\ epc = "loop"
    /\ station_idx <= Len(stations_to_process)
    /\ saved' = Written(enrich_results)
    /\ epc' = "timeout"
    /\ UNCHANGED <<input_stations, checkpoint, resume_mode, retry_failed, enrich_results,
                   stations_to_process, station_idx, extracted, retries>>
    /\ UNCHANGED <<consolidateVars, normalizeVars, extractVars, matchVars, pipelineVars, loadVars,
                 stepVars, correctVars, baseVars>>

\* lines 291-315: _finalize_checkpoint moves the incremental checkpoint to the
\* backup without writing it again; the output is built, and validate_output
\* wants a station in it
Finish ==
    /\ epc = "loop"
    /\ station_idx > Len(stations_to_process)
    /\ epc' = IF DOMAIN enrich_results.stations # {} THEN "returned" ELSE "raised"
    /\ UNCHANGED <<input_stations, checkpoint, resume_mode, retry_failed, enrich_results,
                   stations_to_process, station_idx, extracted, saved, retries>>
    /\ UNCHANGED <<consolidateVars, normalizeVars, extractVars, matchVars, pipelineVars, loadVars,
                 stepVars, correctVars, baseVars>>

----------------------------------------------------------------------------
(* Inputs of the enrichment runs: two stations, and a checkpoint that may    *)
(* list a station in several collections and at most MaxSkipped skip entries *)

MaxSkipped == 2

StationIds == { "NS1", "NS2" }

\* the failure lists with at most one entry per station
FailureLists ==
    { << >> } \cup
    { << [station_id |-> x, permanent |-> p] >> : x \in StationIds, p \in BOOLEAN } \cup
    { << [station_id |-> "NS1", permanent |-> p], [station_id |-> "NS2", permanent |-> q] >> :
        p \in BOOLEAN, q \in BOOLEAN }

\* the lists of processed ids a loaded checkpoint can have: never empty
ProcessedLists == { << "NS1" >>, << "NS2" >>, << "NS1", "NS2" >> }

SkippedEntry(x) == [station_id |-> x]

StartEnrich ==
    /\ input_stations = << "NS1", "NS2" >>
    /\ resume_mode \in BOOLEAN
    /\ retry_failed \in BOOLEAN
    /\ \/ checkpoint = NoCheckpoint
       \/ \E done \in SUBSET StationIds, failed \in FailureLists, n \in 0..MaxSkipped,
             processed \in ProcessedLists :
             \E skipped \in [1..n -> StationIds] :
                 checkpoint =
                     [kind |-> "checkpoint",
                      stations |-> [ x \in done |-> "enriched" ],
                      failed_stations |-> failed,
                      skipped_stations |-> [ k \in 1..n |-> SkippedEntry(skipped[k]) ],
                      processed_station_ids |-> processed]
    /\ enrich_results = << >>
    /\ stations_to_process = << >>
    /\ station_idx = 0
    /\ extracted = {}
    /\ epc = "start"
    /\ saved = NoCheckpoint
    /\ retries = 0

NextEnrich == BeginExecute \/ ProcessStation \/ TimeoutReturn \/ Finish

InitEnrich ==
    StartEnrich /\ IdleConsolidate /\ IdleNormalize /\ IdleExtract /\ IdleMatch /\ IdlePipeline
        /\ IdleLoad /\ IdleSteps /\ IdleCorrect /\ IdleBase

SpecEnrich == InitEnrich /\ [][NextEnrich]_vars

----------------------------------------------------------------------------
(* Stage2Enrichment._load_incremental_checkpoint                            *)
(*                                                                          *)
(* A file is absent, unreadable (json.load or the validation raises), or    *)
(* holds data: the keys of its stations dict in their order, the entries of *)
(* failed_stations and of skipped_stations, and processed_station_ids,      *)
(* which is empty also when the key is missing.                             *)

Absent == [kind |-> "absent"]
Unreadable == [kind |-> "unreadable"]

Data(stations, failed, skipped, processed) ==
    [kind |-> "data", stations |-> stations, failed_stations |-> failed,
     skipped_stations |-> skipped, processed_station_ids |-> processed]

Checkpoint(stations, failed, skipped, processed) ==
    [kind |-> "checkpoint", stations |-> stations, failed_stations |-> failed,
     skipped_stations |-> skipped, processed_station_ids |-> processed]

\* list(dict.fromkeys(list)): the first occurrence of every element, in order
RECURSIVE Deduplicate(_, _)
Deduplicate(list, seen) ==
    IF list = << >> THEN << >>
    ELSE IF Head(list) \in seen THEN Deduplicate(Tail(list), seen)
    ELSE << Head(list) >> \o Deduplicate(Tail(list), seen \cup { Head(list) })

\* lines 457-465: the first entry of every skipped station
RECURSIVE UniqueSkipped(_, _)
UniqueSkipped(entries, seen) ==
    IF entries = << >> THEN << >>
    ELSE IF Head(entries).station_id \in seen THEN UniqueSkipped(Tail(entries), seen)
    ELSE << Head(entries) >>
             \o UniqueSkipped(Tail(entries), seen \cup { Head(entries).station_id })

\* the station ids of a list of entries, in the order of the list
IdList(entries) == [ k \in DOMAIN entries |-> entries[k].station_id ]

\* a rebuild that leaves out the skipped stations
_convert_enrichment_to_incremental_NoSkipped(data) ==
    LET skipped_list == UniqueSkipped(data.skipped_stations, {})
        stations_dict == SelectSeq(data.stations, LAMBDA sid : sid \notin IdsOf(skipped_list))
    IN  Checkpoint(stations_dict, data.failed_stations, skipped_list,
                   IF data.processed_station_ids = << >>
                   THEN Deduplicate(stations_dict \o IdList(data.failed_stations), {})
                   ELSE data.processed_station_ids)

\* lines 450-491
_convert_enrichment_to_incremental(data) ==
    LET skipped_list == UniqueSkipped(data.skipped_stations, {})
        stations_dict == SelectSeq(data.stations, LAMBDA sid : sid \notin IdsOf(skipped_list))
    IN  Checkpoint(stations_dict, data.failed_stations, skipped_list,
                   IF data.processed_station_ids = << >>
                   THEN Deduplicate(stations_dict \o IdList(data.failed_stations)
                                        \o IdList(skipped_list), {})
                   ELSE data.processed_station_ids)

\* lines 493-517
_load_checkpoint_file(file, allow_rebuild) ==
    IF file.kind # "data" THEN NoCheckpoint
    ELSE IF file.processed_station_ids = << >> /\ file.stations # << >>
         THEN IF ~allow_rebuild THEN NoCheckpoint
              ELSE _convert_enrichment_to_incremental(file)
         ELSE Checkpoint(file.stations, file.failed_stations, file.skipped_stations,
                         file.processed_station_ids)

\* `checkpoint and checkpoint.processed_station_ids'
HasProcessed(cp) == cp # NoCheckpoint /\ cp.processed_station_ids # << >>

Exists(file) == file.kind # "absent"

\* lines 544-557: the enrichment file as the last resort
FromEnrichment(enrichment) ==
    IF enrichment.kind = "data" /\ HasProcessed(_convert_enrichment_to_incremental(enrichment))
    THEN [checkpoint |-> _convert_enrichment_to_incremental(enrichment),
          source |-> "enrichment"]
    ELSE [checkpoint |-> NoCheckpoint, source |-> "none"]

\* a loader that rebuilds the main checkpoint before it looks at the backup
_load_incremental_checkpoint_RebuildFirst(main, backup, enrichment) ==
    IF Exists(main)
    THEN IF HasProcessed(_load_checkpoint_file(main, TRUE))
         THEN [checkpoint |-> _load_checkpoint_file(main, TRUE),
               source |-> IF main.processed_station_ids # << >> THEN "main"
                          ELSE "main rebuilt"]
         ELSE IF Exists(backup) /\ HasProcessed(_load_checkpoint_file(backup, TRUE))
         THEN [checkpoint |-> _load_checkpoint_file(backup, TRUE), source |-> "backup"]
         ELSE FromEnrichment(enrichment)
    ELSE IF Exists(backup) /\ HasProcessed(_load_checkpoint_file(backup, TRUE))
    THEN [checkpoint |-> _load_checkpoint_file(backup, TRUE), source |-> "backup"]
    ELSE FromEnrichment(enrichment)

\* lines 519-557: the checkpoint returned, and the source it is taken from
_load_incremental_checkpoint(main, backup, enrichment) ==
    IF Exists(main)
    THEN IF HasProcessed(_load_checkpoint_file(main, FALSE))
         THEN [checkpoint |-> _load_checkpoint_file(main, FALSE), source |-> "main"]
         ELSE IF Exists(backup) /\ HasProcessed(_load_checkpoint_file(backup, TRUE))
         THEN [checkpoint |-> _load_checkpoint_file(backup, TRUE), source |-> "backup"]
         ELSE IF HasProcessed(_load_checkpoint_file(main, TRUE))
         THEN [checkpoint |-> _load_checkpoint_file(main, TRUE), source |-> "main rebuilt"]
         ELSE FromEnrichment(enrichment)
    ELSE IF Exists(backup) /\ HasProcessed(_load_checkpoint_file(backup, TRUE))
    THEN [checkpoint |-> _load_checkpoint_file(backup, TRUE), source |-> "backup"]
    ELSE FromEnrichment(enrichment)

LoadCheckpoint ==
    /\ lpc = "start"
    /\ LET got == _load_incremental_checkpoint(main_file, backup_file, enrichment_file)
       IN  /\ loaded' = got.checkpoint
           /\ loaded_from' = got.source
    /\ lpc' = "done"
    /\ UNCHANGED <<main_file, backup_file, enrichment_file>>
    /\ UNCHANGED <<consolidateVars, normalizeVars, extractVars, matchVars, pipelineVars,
                   enrichVars, stepVars, correctVars, baseVars>>

----------------------------------------------------------------------------
(* Inputs of the loader runs: one of the three files holds any of the data  *)
(* below, with at most MaxSkipped skip entries; the two others are absent,  *)
(* unreadable, or hold one of three plain contents                          *)

Entry(x) == [station_id |-> x]

StationKeys == { << >>, << "NS1" >>, << "NS2", "NS1" >> }
FailedEntries == { << >>, << Entry("NS2") >> }
SkippedIds == { "NS1", "NS3" }
ProcessedIds == { << >>, << "NS1" >> }

PlainFiles ==
    { Absent, Unreadable,
      Data(<< >>, << >>, << >>, << >>),
      Data(<< "NS1" >>, << >>, << >>, << >>),
      Data(<< "NS1" >>, << >>, << >>, << "NS1" >>) }

\* the file holds data of the pool
AnyData(file) ==
    \E st \in StationKeys, failed \in FailedEntries, n \in 0..MaxSkipped,
       processed \in ProcessedIds :
        \E skipped \in [1..n -> SkippedIds] :
            file = Data(st, failed, [ k \in 1..n |-> Entry(skipped[k]) ], processed)

StartLoad ==
    /\ \/ AnyData(main_file) /\ backup_file \in PlainFiles /\ enrichment_file \in PlainFiles
       \/ main_file \in PlainFiles /\ AnyData(backup_file) /\ enrichment_file \in PlainFiles
       \/ main_file \in PlainFiles /\ backup_file \in PlainFiles /\ AnyData(enrichment_file)
    /\ loaded = NoCheckpoint
    /\ loaded_from = "none"
    /\ lpc = "start"

NextLoad == LoadCheckpoint

InitLoad ==
    StartLoad /\ IdleConsolidate /\ IdleNormalize /\ IdleExtract /\ IdleMatch /\ IdlePipeline
        /\ IdleEnrich /\ IdleSteps /\ IdleCorrect /\ IdleBase

SpecLoad == InitLoad /\ [][NextLoad]_vars

----------------------------------------------------------------------------
(* Stage1Ingestion._apply_corrections (src/src/pipelines/stage1_ingestion.py) *)
(*                                                                            *)
(* A Stage1Station is a record of its official_name, display_name,            *)
(* mrt_codes, lines, station_type and fandom_url.  The URL the wiki resolver  *)
(* gives is kept as the request it answers: the kind of page and the name     *)
(* the page is looked up by.                                                  *)

CHOA_CHU_KANG ==
    << "C", "H", "O", "A", " ", "C", "H", "U", " ", "K", "A", "N", "G" >>
BUKIT_PANJANG ==
    << "B", "U", "K", "I", "T", " ", "P", "A", "N", "J", "A", "N", "G" >>
SENGKANG ==
    << "S", "E", "N", "G", "K", "A", "N", "G" >>
PUNGGOL ==
    << "P", "U", "N", "G", "G", "O", "L" >>
SENGKANG_MRT ==
    << "S", "E", "N", "G", "K", "A", "N", "G", " ", "M", "R", "T", " ", "S",
       "T", "A", "T", "I", "O", "N" >>

\* StationType
MRT == "mrt"
LRT == "lrt"

\* lines 220-222
LRT_HUB_CODES == << << SENGKANG_MRT, << STC >> >> >>

\* lines 233-238: the keys; the value of a key is the key with " MRT/LRT STATION"
INTERCHANGE_STATIONS == { CHOA_CHU_KANG, BUKIT_PANJANG, SENGKANG, PUNGGOL }

\* _detect_lines: line_map and special_codes, as pairs of prefix and line
line_map ==
    { << NS, << "N", "S", "L" >> >>, << << "E", "W" >>, << "E", "W", "L" >> >>,
      << << "N", "E" >>, << "N", "E", "L" >> >>, << << "C", "C" >>, << "C", "C", "L" >> >>,
      << << "C", "E" >>, << "C", "C", "L" >> >>, << << "D", "T" >>, << "D", "T", "L" >> >>,
      << << "T", "E" >>, << "T", "E", "L" >> >>, << << "C", "G" >>, << "C", "G", "L" >> >>,
      << << "C", "R" >>, << "C", "R", "L" >> >>, << BP, << "B", "P", "L" >> >>,
      << << "A" >>, << "B", "P", "L" >> >>,
      << << "S", "W" >>, << "S", "K", "L" >> >>, << << "S", "E" >>, << "S", "K", "L" >> >>,
      << << "P", "W" >>, << "P", "G", "L" >> >>, << << "P", "E" >>, << "P", "G", "L" >> >>,
      << << "J", "S" >>, << "J", "R", "L" >> >>, << << "J", "W" >>, << "J", "R", "L" >> >>,
      << << "J", "E" >>, << "J", "R", "L" >> >> }

special_codes == { << STC, << "S", "K", "L" >> >>, << PTC, << "P", "G", "L" >> >> }

\* the value a dict given as a set of pairs has for a key it holds
ValueOf(pairs, key) == (CHOOSE p \in pairs : p[1] = key)[2]
HasKey(pairs, key) == \E p \in pairs : p[1] = key

\* ''.join(c for c in code if c.isalpha())
AlphaPart(c) == SelectSeq(c, IsLetter)

\* one code of _detect_lines: its line, or no line if the prefix is unmapped
LineOfCode(c) ==
    IF HasKey(special_codes, c) THEN { ValueOf(special_codes, c) }
    ELSE IF HasKey(line_map, AlphaPart(c)) THEN { ValueOf(line_map, AlphaPart(c)) }
    ELSE {}

\* _detect_lines, for codes whose prefixes are all mapped
_detect_lines(codes) == SortedList(UNION { LineOfCode(codes[k]) : k \in DOMAIN codes })

\* _is_interchange_station
mrt_prefixes ==
    { NS, << "E", "W" >>, << "N", "E" >>, << "C", "C" >>, << "D", "T" >>, << "T", "E" >>,
      << "C", "G" >>, << "C", "R" >>, << "C", "E" >> }
lrt_prefixes ==
    { BP, << "S", "W" >>, << "S", "E" >>, << "P", "W" >>, << "P", "E" >>, STC, PTC }

_is_interchange_station(mrt_codes) ==
    /\ \E k \in DOMAIN mrt_codes : \E p \in mrt_prefixes : StartsWith(mrt_codes[k], p)
    /\ \E k \in DOMAIN mrt_codes : \E p \in lrt_prefixes : StartsWith(mrt_codes[k], p)

\* _build_fandom_url: the interchange page of the station's base name, or the
\* page the resolver is asked for by display name
_build_fandom_url(station_name, mrt_codes, display_name) ==
    IF mrt_codes # << >> /\ _is_interchange_station(mrt_codes)
    THEN [page |-> "MRT/LRT_Station", of |-> _get_base_name(station_name)]
    ELSE [page |-> "resolved",
          of |-> IF display_name # << >> THEN display_name
                 ELSE Replace(Replace(station_name, MRT_STATION), LRT_STATION)]

\* lines 223-229: the hub codes of a station named in LRT_HUB_CODES
WithHubCodes(station) ==
    LET hubs == { k \in DOMAIN LRT_HUB_CODES : LRT_HUB_CODES[k][1] = station.official_name }
    IN  IF hubs = {} THEN station
        ELSE LET combined_codes ==
                     SortedList(SetOf(station.mrt_codes)
                                    \cup SetOf(LRT_HUB_CODES[CHOOSE k \in hubs : TRUE][2]))
             IN  [station EXCEPT !.mrt_codes = combined_codes,
                                 !.lines = _detect_lines(combined_codes)]

\* a renaming that goes by the base name of the official name
Renamed_ByOfficialName(station) ==
    LET base_name == _get_base_name(station.official_name)
    IN  IF base_name \in INTERCHANGE_STATIONS
        THEN [station EXCEPT !.official_name = base_name \o MRT_LRT_STATION,
                             !.station_type = MRT]
        ELSE station

\* lines 240-250: the renaming of an interchange station
Renamed(station) ==
    LET base_name == Upper(station.display_name)
    IN  IF base_name \in INTERCHANGE_STATIONS
        THEN [station EXCEPT !.official_name = base_name \o MRT_LRT_STATION,
                             !.station_type = MRT]
        ELSE station

\* lines 253-254
WithUrl(station) ==
    [station EXCEPT !.fandom_url =
        _build_fandom_url(station.official_name, station.mrt_codes, station.display_name)]

\* the three loops of _apply_corrections, each over the whole list
_apply_corrections(stations) ==
    [ k \in DOMAIN stations |-> WithUrl(Renamed(WithHubCodes(stations[k]))) ]

ApplyCorrections ==
    /\ cpc = "start"
    /\ corrected' = _apply_corrections(stage1_stations)
    /\ cpc' = "done"
    /\ UNCHANGED stage1_stations
    /\ UNCHANGED <<consolidateVars, normalizeVars, extractVars, matchVars, pipelineVars,
                   enrichVars, loadVars, stepVars, baseVars>>

----------------------------------------------------------------------------
(* Inputs of the correction runs: at most MaxStations stations, as          *)
(* _convert_to_stage1_stations builds them or as the tests do               *)

MaxStations == 3

Sengkang ==
    << "S", "e", "n", "g", "k", "a", "n", "g" >>
Seng_Kang ==
    << "S", "e", "n", "g", " ", "K", "a", "n", "g" >>
South_View ==
    << "S", "o", "u", "t", "h", " ", "V", "i", "e", "w" >>
Punggol_Coast ==
    << "P", "u", "n", "g", "g", "o", "l", " ", "C", "o", "a", "s", "t" >>
SOUTH_VIEW_LRT ==
    << "S", "O", "U", "T", "H", " ", "V", "I", "E", "W", " ", "L", "R", "T",
       " ", "S", "T", "A", "T", "I", "O", "N" >>
PUNGGOL_COAST_MRT ==
    << "P", "U", "N", "G", "G", "O", "L", " ", "C", "O", "A", "S", "T", " ",
       "M", "R", "T", " ", "S", "T", "A", "T", "I", "O", "N" >>
CHOA_CHU_KANG_LRT ==
    << "C", "H", "O", "A", " ", "C", "H", "U", " ", "K", "A", "N", "G", " ",
       "L", "R", "T", " ", "S", "T", "A", "T", "I", "O", "N" >>
NE16 == << "N", "E", "1", "6" >>
NE18 == << "N", "E", "1", "8" >>
BP2 == << "B", "P", "2" >>

Pending == [page |-> "pending", of |-> << >>]

Stage1Station(official_name, display_name, mrt_codes, station_type) ==
    [official_name |-> official_name, display_name |-> display_name,
     mrt_codes |-> mrt_codes, lines |-> _detect_lines(mrt_codes),
     station_type |-> station_type, fandom_url |-> Pending]

\* interchanges under display names in upper case and as written, one of them
\* an LRT half; stations that are none; a display name that only starts like
\* an interchange; a hub whose display name is spelt differently
Stage1Stations ==
    { Stage1Station(BUKIT_PANJANG_MRT, BUKIT_PANJANG, << BP1, DT1 >>, MRT),
      Stage1Station(CHOA_CHU_KANG_LRT, CHOA_CHU_KANG, << BP1 >>, LRT),
      Stage1Station(SENGKANG_MRT, Sengkang, << NE16 >>, MRT),
      Stage1Station(SENGKANG_MRT, Seng_Kang, << NE16 >>, MRT),
      Stage1Station(PUNGGOL_MRT, PUNGGOL, << NE17, PTC >>, MRT),
      Stage1Station(PUNGGOL_COAST_MRT, Punggol_Coast, << NE18 >>, MRT),
      Stage1Station(YISHUN_MRT, Yishun, << NS13 >>, MRT),
      Stage1Station(SOUTH_VIEW_LRT, South_View, << BP2 >>, LRT) }

StartCorrect ==
    /\ \E n \in 1..MaxStations : stage1_stations \in [1..n -> Stage1Stations]
    /\ corrected = << >>
    /\ cpc = "start"

NextCorrect == ApplyCorrections

InitCorrect ==
    StartCorrect /\ IdleConsolidate /\ IdleNormalize /\ IdleExtract /\ IdleMatch /\ IdlePipeline
        /\ IdleEnrich /\ IdleLoad /\ IdleSteps /\ IdleBase

SpecCorrect == InitCorrect /\ [][NextCorrect]_vars

----------------------------------------------------------------------------
(* Consolidator._get_base_name on the two names that criterion 3 compares *)

\* lines 23 and 34: the base names of the match and of the existing station
CompareBaseNames ==
    /\ bpc = "start"
    /\ base_a' = _get_base_name(name_a)
    /\ base_b' = _get_base_name(name_b)
    /\ bpc' = "done"
    /\ UNCHANGED <<name_a, name_b>>
    /\ UNCHANGED <<consolidateVars, normalizeVars, extractVars, matchVars, pipelineVars,
                   enrichVars, loadVars, stepVars, correctVars>>

\* Inputs: official names put together from at most MaxParts pieces
MaxParts == 3

NamePieces ==
    { << "A", "b" >>, STATION, MRT_STATION, LRT_STATION, MRT_LRT_STATION }

RECURSIVE NamesOf(_)
NamesOf(n) ==
    IF n = 0 THEN { << >> }
    ELSE LET shorter == NamesOf(n - 1)
         IN  shorter \cup { s \o p : s \in shorter, p \in NamePieces }

OfficialNames == NamesOf(MaxParts)

StartBase ==
    /\ name_a \in OfficialNames
    /\ name_b \in OfficialNames
    /\ base_a = NoText
    /\ base_b = NoText
    /\ bpc = "start"

NextBase == CompareBaseNames

InitBase ==
    StartBase /\ IdleConsolidate /\ IdleNormalize /\ IdleExtract /\ IdleMatch /\ IdlePipeline
        /\ IdleEnrich /\ IdleLoad /\ IdleSteps /\ IdleCorrect

SpecBase == InitBase /\ [][NextBase]_vars

----------------------------------------------------------------------------
(* Consolidator(spatial_threshold).consolidate: runs with a threshold below, *)
(* at and above the 300 m of criterion 2, on at most MaxReports matches      *)

MaxReports == 2

\* line 5: the values given to the constructor
Thresholds == { NameThreshold - 100, NameThreshold, DefaultThreshold }

\* metres along the meridian: distances below 300, of 300, and beyond 800
ThresholdPositions == { 0, 250, 300, 900 }

ThresholdMatches ==
    { [official_name |-> r.official_name, codes |-> r.codes,
       exits |-> << Exit(r.label, p) >>] : r \in Reports, p \in ThresholdPositions }

StartThreshold ==
    /\ \E n \in 1..MaxReports : raw_matches \in [1..n -> ThresholdMatches]
    /\ spatial_threshold \in Thresholds
    /\ consolidated = << >>
    /\ idx = 1
    /\ pc = "loop"
    /\ absorbed = << >>
    /\ previous = << >>

NextThreshold == MergeMatch \/ AppendMatch \/ SortAndReturn

InitThreshold ==
    StartThreshold /\ IdleNormalize /\ IdleExtract /\ IdleMatch /\ IdlePipeline
        /\ IdleEnrich /\ IdleLoad /\ IdleSteps /\ IdleCorrect /\ IdleBase

SpecThreshold == InitThreshold /\ [][NextThreshold]_vars

----------------------------------------------------------------------------
(* Properties of consolidate *)

Returned == pc = "done"

\* a turn of the loop has just been taken: the match it handled
TurnTaken == pc = "loop" /\ idx > 1
Handled == raw_matches[idx - 1]

\* the latest turn merged its match into a station / appended a station
Merged == TurnTaken /\ Len(consolidated) = Len(previous)
Appended == TurnTaken /\ Len(consolidated) = Len(previous) + 1

\* the station the latest turn merged into
MergeTarget == CHOOSE k \in DOMAIN absorbed : absorbed[k][Len(absorbed[k])] = idx - 1

CodesOf(station) == SetOf(station.mrt_codes)

SharesCode(match, station) == SetOf(match.codes) \cap CodesOf(station) # {}

\* metres between the centroid of a match's exits and the centroid of a station's exits
CentroidDistance(match, station) ==
    haversine_distance(calculate_centroid(match.exits), calculate_centroid(station.exits))

SameBaseName(match, station) ==
    _get_base_name(match.official_name) = _get_base_name(station.official_name)

\* the three criteria as the specification words them
Criterion1(match, station) ==
    SharesCode(match, station)
        /\ DistLess(CentroidDistance(match, station), spatial_threshold)
Criterion2(match, station) ==
    match.official_name = station.official_name
        /\ DistLess(CentroidDistance(match, station), NameThreshold)
Criterion3(match, station) ==
    SameBaseName(match, station)
        /\ DistLess(CentroidDistance(match, station), spatial_threshold)

\* the entry a match is seen as by a later match: what NewEntry would hold
AsStation(match) ==
    [official_name |-> match.official_name, mrt_codes |-> match.codes, exits |-> match.exits]

\* the normalised codes of a list of exits
NormCodes(exits) == { _normalize_exit_code(exits[k].exit_code) : k \in DOMAIN exits }

\* no two exits of the list carry the same normalised code
OncePerCode(exits) ==
    \A i, j \in DOMAIN exits :
        i # j => _normalize_exit_code(exits[i].exit_code)
                     # _normalize_exit_code(exits[j].exit_code)

TwoMatches == Returned /\ Len(raw_matches) = 2

(* C1: in the list consolidate returns, no two distinct stations have a    *)
(* station code in common.                                                 *)
C1_CodesPairwiseDisjoint ==
    Returned =>
        \A a, b \in DOMAIN consolidated :
            a # b => CodesOf(consolidated[a]) \cap CodesOf(consolidated[b]) = {}

(* C2: a match that shares a code with an existing station whose centroid  *)
(* is closer than the threshold creates no new station; two such matches   *)
(* give one station whose codes are the union of both code sets and whose  *)
(* exits are the deduplicated union of both exit lists.                    *)
C2_CodeOverlapMerge ==
    /\ ( TurnTaken /\ (\E k \in DOMAIN previous : Criterion1(Handled, previous[k]))
            => Merged )
    /\ ( TwoMatches /\ Criterion1(raw_matches[2], AsStation(raw_matches[1]))
            => /\ Len(consolidated) = 1
               /\ CodesOf(consolidated[1])
                    = SetOf(raw_matches[1].codes) \cup SetOf(raw_matches[2].codes)
               /\ NormCodes(consolidated[1].exits)
                    = NormCodes(raw_matches[1].exits) \cup NormCodes(raw_matches[2].exits)
               /\ OncePerCode(consolidated[1].exits) )

(* C3: two matches with the same base name and centroids closer than the   *)
(* threshold become one station even with disjoint code sets, and that     *)
(* station lists the codes of both.                                        *)
C3_BaseNameMerge ==
    TwoMatches /\ Criterion3(raw_matches[2], AsStation(raw_matches[1]))
        => /\ Len(consolidated) = 1
           /\ SetOf(raw_matches[1].codes) \subseteq CodesOf(consolidated[1])
           /\ SetOf(raw_matches[2].codes) \subseteq CodesOf(consolidated[1])

\* a BUKIT PANJANG MRT report and a BUKIT PANJANG LRT report with disjoint codes, fused
C3_Witness ==
    /\ TwoMatches
    /\ raw_matches[1].official_name = BUKIT_PANJANG_MRT
    /\ raw_matches[2].official_name = BUKIT_PANJANG_LRT
    /\ SetOf(raw_matches[1].codes) \cap SetOf(raw_matches[2].codes) = {}
    /\ Criterion3(raw_matches[2], AsStation(raw_matches[1]))
    /\ Len(consolidated) = 1
    /\ CodesOf(consolidated[1]) = { DT1, BP1 }

\* the distance is exactly the limit
DistIs(dist, limit) == dist.num = limit * dist.den

(* C4: a match is merged into a station only if one of the three criteria  *)
(* holds for that station (each with a strict distance bound); otherwise a *)
(* new station seeded with the match is appended.  Two matches with        *)
(* disjoint codes, different base names and centroids 5,000 m apart give   *)
(* two stations, and a distance equal to the threshold does not merge.     *)
C4_NoFalseMerge ==
    /\ ( Merged =>
            LET s == previous[MergeTarget]
            IN  Criterion1(Handled, s) \/ Criterion2(Handled, s) \/ Criterion3(Handled, s) )
    /\ ( TurnTaken
            /\ (\A k \in DOMAIN previous :
                    ~ ( Criterion1(Handled, previous[k]) \/ Criterion2(Handled, previous[k])
                          \/ Criterion3(Handled, previous[k]) ))
            => /\ Appended
               /\ SubSeq(consolidated, 1, Len(previous)) = previous
               /\ consolidated[Len(consolidated)].official_name = Handled.official_name
               /\ consolidated[Len(consolidated)].mrt_codes = Handled.codes )
    /\ ( TwoMatches
            /\ ~ SharesCode(raw_matches[2], AsStation(raw_matches[1]))
            /\ ~ SameBaseName(raw_matches[2], AsStation(raw_matches[1]))
            /\ DistIs(CentroidDistance(raw_matches[2], AsStation(raw_matches[1])), 5000)
            => Len(consolidated) = 2 )
    /\ ( TwoMatches
            /\ DistIs(CentroidDistance(raw_matches[2], AsStation(raw_matches[1])),
                      spatial_threshold)
            => Len(consolidated) = 2 )

\* same name and shared code, exactly the threshold apart: kept as two stations
C4_Witness ==
    /\ TwoMatches
    /\ raw_matches[1].official_name = raw_matches[2].official_name
    /\ SharesCode(raw_matches[2], AsStation(raw_matches[1]))
    /\ DistIs(CentroidDistance(raw_matches[2], AsStation(raw_matches[1])), spatial_threshold)
    /\ Len(consolidated) = 2

\* the exits of the matches a station absorbed, in processing order
RECURSIVE ExitsInOrder(_)
ExitsInOrder(indices) ==
    IF indices = << >> THEN << >>
    ELSE raw_matches[Head(indices)].exits \o ExitsInOrder(Tail(indices))

\* the first exit of the list with the given normalised code
FirstWithCode(exits, norm_code) ==
    LET at == { k \in DOMAIN exits : _normalize_exit_code(exits[k].exit_code) = norm_code }
    IN  exits[CHOOSE k \in at : \A j \in at : k <= j]

(* C5: every station of the result holds at most one exit per normalised   *)
(* exit code, and that exit has the coordinates of the first occurrence in *)
(* processing order; later exits with the same code are dropped.           *)
C5_FirstOccurrenceKept ==
    Returned =>
        \A k \in DOMAIN consolidated :
            /\ OncePerCode(consolidated[k].exits)
            /\ \A e \in DOMAIN consolidated[k].exits :
                  LET kept == consolidated[k].exits[e]
                      first == FirstWithCode(ExitsInOrder(absorbed[k]), kept.exit_code)
                  IN  kept.lat = first.lat /\ kept.lng = first.lng

\* the codes of the matches a station absorbed
AbsorbedCodes(k) ==
    UNION { SetOf(raw_matches[absorbed[k][j]].codes) : j \in DOMAIN absorbed[k] }

(* C6: the codes of every station are exactly the union of the codes of    *)
(* the matches absorbed into it, the seeding match included.               *)
C6_CodesAreUnionOfAbsorbed ==
    /\ Len(absorbed) = Len(consolidated)
    /\ \A k \in DOMAIN consolidated : CodesOf(consolidated[k]) = AbsorbedCodes(k)

\* a station that absorbed two matches with different code sets, next to another station
C6_Witness ==
    /\ Returned
    /\ Len(consolidated) = 2
    /\ \E k \in DOMAIN consolidated :
          /\ Len(absorbed[k]) = 2
          /\ SetOf(raw_matches[absorbed[k][1]].codes) # SetOf(raw_matches[absorbed[k][2]].codes)
          /\ CodesOf(consolidated[k]) = { NS13, NS14 }

\* the identifier of a stored exit code: what follows the "Exit " label
Identifier(exit_code) == Strip(SubSeq(exit_code, Len(ExitLabel) + 1, Len(exit_code)))

\* identifier a must not come before identifier b in the natural order
OutOfOrder(a, b) ==
    \/ IsDigit(a) /\ ~IsDigit(b)
    \/ IsDigit(a) /\ IsDigit(b) /\ IntOf(a) > IntOf(b)
    \/ ~IsDigit(a) /\ ~IsDigit(b) /\ StrLess(Upper(b), Upper(a))

Labelled(text) == ExitLabel \o text

(* C7: in the result every station's exits are in natural order: the       *)
(* identifiers that are not numbers first, alphabetically ignoring case,   *)
(* then the numbers by value; B, 10, A, 2 come out as A, B, 2, 10.         *)
C7_NaturalExitOrder ==
    Returned =>
        /\ \A k \in DOMAIN consolidated :
              LET exits == consolidated[k].exits
              IN  \A i, j \in DOMAIN exits :
                     /\ StartsWith(exits[i].exit_code, ExitLabel)
                     /\ i < j => ~OutOfOrder(Identifier(exits[i].exit_code),
                                             Identifier(exits[j].exit_code))
        /\ ( raw_matches = << ExitMatch(<< << "B" >>, << "1", "0" >> >>, 1),
                              ExitMatch(<< << "A" >>, << "2" >> >>, 2) >>
               => [ e \in DOMAIN consolidated[1].exits |-> consolidated[1].exits[e].exit_code ]
                    = << Labelled(<< "A" >>), Labelled(<< "B" >>),
                         Labelled(<< "2" >>), Labelled(<< "1", "0" >>) >> )

\* the station given B, 10, A, 2 is returned with four exits, Exit 10 last
C7_Witness ==
    /\ Returned
    /\ raw_matches = << ExitMatch(<< << "B" >>, << "1", "0" >> >>, 1),
                        ExitMatch(<< << "A" >>, << "2" >> >>, 2) >>
    /\ Len(consolidated) = 1
    /\ Len(consolidated[1].exits) = 4
    /\ consolidated[1].exits[4].exit_code = Labelled(<< "1", "0" >>)

\* three reports of Bukit Panjang: MRT at 0 m, MRT at 800 m, LRT at 500 m
ReportA == [official_name |-> BUKIT_PANJANG_MRT, codes |-> << DT1 >>,
            exits |-> << Exit(<< "A" >>, 0) >>]
ReportB == [official_name |-> BUKIT_PANJANG_MRT, codes |-> << DT1 >>,
            exits |-> << Exit(<< "A" >>, 800) >>]
ReportC == [official_name |-> BUKIT_PANJANG_LRT, codes |-> << BP1 >>,
            exits |-> << Exit(<< "B" >>, 500) >>]

(* C10: consolidate depends on the order of its input: the list A, B, C    *)
(* gives two stations and its permutation A, C, B gives one.               *)
C10_OrderDependent ==
    Returned =>
        /\ raw_matches = << ReportA, ReportB, ReportC >> => Len(consolidated) = 2
        /\ raw_matches = << ReportA, ReportC, ReportB >> => Len(consolidated) = 1

\* the permutation A, C, B returned as a single station that absorbed all three
C10_Witness ==
    /\ Returned
    /\ raw_matches = << ReportA, ReportC, ReportB >>
    /\ Len(consolidated) = 1
    /\ absorbed = << << 1, 2, 3 >> >>

----------------------------------------------------------------------------
(* Properties of _normalize_exit_code *)

(* C8: normalising a normalised exit code changes nothing:                 *)
(* normalize(normalize(x)) = normalize(x) for every text x.                *)
C8_Idempotent == npc = "twice" => norm2 = norm1

(* C9: the result is "Exit <REMAINDER>" with the remainder in upper case   *)
(* and the EXIT token removed, so that "A", "Exit A" and "EXIT   a" give   *)
(* the same value, "Exit   b " gives "Exit B" and "EXIT1" gives "Exit 1".  *)
C9_CanonicalForm ==
    npc \in { "once", "twice" } =>
        /\ StartsWith(norm1, ExitLabel)
        /\ Identifier(norm1) = Upper(Identifier(norm1))
        /\ code \in { << "A" >>, << "E", "x", "i", "t", " ", "A" >>,
                      << "E", "X", "I", "T", " ", " ", " ", "a" >> }
              => norm1 = Labelled(<< "A" >>)
        /\ code = << "E", "x", "i", "t", " ", " ", " ", "b", " " >>
              => norm1 = Labelled(<< "B" >>)
        /\ code = << "E", "X", "I", "T", "1" >> => norm1 = Labelled(<< "1" >>)

----------------------------------------------------------------------------
(* Properties of _extract_codes *)

Extracted == xpc = "done"

\* a single letter followed by digits, the shape of an exit label (A1, B2)
SingleLetterAndDigits(t) == Len(t) >= 2 /\ IsLetter(t[1]) /\ IsDigit(Tail(t))

\* t stands in s from s[k] on, with a word boundary before it
AtWordBoundary(s, t, k) ==
    /\ k + Len(t) - 1 <= Len(s)
    /\ SubSeq(s, k, k + Len(t) - 1) = t
    /\ WordBoundary(s, k - 1)

(* C13: every token _extract_codes returns starts with a configured         *)
(* station-code prefix, stands at a word boundary of the upper-cased text,  *)
(* and is never a single letter followed by digits (an exit label).         *)
C13_NoExitLabels ==
    Extracted =>
        \A t \in found :
            /\ \E i \in DOMAIN prefix_pattern : StartsWith(t, prefix_pattern[i])
            /\ \E k \in 1..Len(code_text) : AtWordBoundary(Upper(code_text), t, k)
            /\ ~SingleLetterAndDigits(t)

\* the text A1/NS13 under the default prefixes: NS13 is returned, A1 is not
C13_Witness ==
    /\ Extracted
    /\ station_code_prefixes = << >>
    /\ code_text = << "A", "1", "/", "N", "S", "1", "3" >>
    /\ found = { NS \o << "1", "3" >> }

----------------------------------------------------------------------------
(* Properties of match_station *)

Matched == mpc = "returned"

\* the candidate lies within epsilon metres of the centroid of the group's exits
WithinEpsilon(res) ==
    LET d == haversine_distance(calculate_centroid(dg_exits), CoordsOf(res))
    IN  d.num <= DefaultEpsilon * d.den

\* the codes in the names of the search candidates within epsilon
InRangeCodes ==
    UNION { _extract_codes(search_results[k].BUILDING) :
                k \in { j \in DOMAIN search_results : WithinEpsilon(search_results[j]) } }

\* the codes in the first result of the nearest-station service
FallbackCodes ==
    IF nearby_results = << >> THEN {} ELSE _extract_codes(nearby_results[1].MRT_CA_CODE)

\* a list of texts in strictly ascending order
Ascending(codes) == \A i \in 1..(Len(codes) - 1) : StrLess(codes[i], codes[i + 1])

(* C11: a call of match_station that returns gives None exactly when no     *)
(* code was extracted from an in-range search candidate and none from the   *)
(* first result of the nearest-station fallback; a result it returns has a  *)
(* non-empty list of codes.                                                 *)
C11_NoneExactlyWithoutCodes ==
    Matched =>
        /\ match_result = NoMatch <=> (InRangeCodes = {} /\ FallbackCodes = {})
        /\ match_result # NoMatch => match_result.codes # << >>

\* None although a candidate is in range and the fallback has two results:
\* the candidate's name has no code, and only the second result has one
C11_Witness ==
    /\ Matched
    /\ match_result = NoMatch
    /\ \E k \in DOMAIN search_results : WithinEpsilon(search_results[k])
    /\ Len(nearby_results) = 2

(* C12: when an in-range search candidate yields a code, the codes          *)
(* match_station returns are the sorted union of the codes in the names of  *)
(* all candidates at a distance <= epsilon from the centroid, exactly       *)
(* epsilon included, whatever their score; farther candidates add nothing.  *)
C12_CodesOfAllInRange ==
    (Matched /\ InRangeCodes # {}) =>
        /\ match_result # NoMatch
        /\ SetOf(match_result.codes) = InRangeCodes
        /\ Ascending(match_result.codes)

\* two candidates with codes, the lower-scored one at exactly epsilon and the
\* other one a metre too far: only the codes of the first are returned
C12_Witness ==
    /\ Matched
    /\ dg_exits = << Exit(<< "A" >>, 0) >>
    /\ search_results = << Candidate(CodesOnly, DefaultEpsilon, 50),
                           Candidate(YISHUN_MRT_NS13_EXIT_A, DefaultEpsilon + 1, 90) >>
    /\ match_result.codes = << EW24, NS14 >>

(* C14: a search candidate with a missing or malformed name, latitude or    *)
(* longitude is skipped: the call ends as it would if the search had        *)
(* returned the well-formed candidates only.                                *)
C14_MalformedSkipped ==
    mpc \in { "returned", "raised" } =>
        match_result = match_station(dg_name, dg_exits, SelectSeq(search_results, WellFormed),
                                     nearby_results, DefaultEpsilon)

----------------------------------------------------------------------------
(* Properties of the pipeline *)

PipelineDone == ppc = "consolidating" /\ pc = "done"

\* the stations of the output
Stations == SetOf(consolidated)

\* the latitudes of the exits of the group, which no other group shares
ExitPlaces(g) == { g.exits[k].lat : k \in DOMAIN g.exits }

\* the group left its name or one of its exits in some station of the output
InOutput(g) ==
    \E st \in Stations :
        \/ st.official_name \in { g.name, Upper(g.name) }
        \/ \E k \in DOMAIN st.exits : st.exits[k].lat \in ExitPlaces(g)

(* C15: a group for which match_station returns None does not stop the      *)
(* pipeline: the loop goes on to the remaining groups and only an exception *)
(* ends it early; neither the name nor an exit of such a group is in any    *)
(* station of the consolidated output, and the codes of every group that    *)
(* did resolve are codes of a station of the output.                        *)
C15_UnmatchedGroupExcluded ==
    /\ \A i \in DOMAIN outcomes : outcomes[i] = NoMatch => (group_idx > i \/ ppc # "aborted")
    /\ ppc = "aborted" => outcomes[Len(outcomes)] = Raised
    /\ ppc = "consolidating" => Len(outcomes) = Len(dg_groups)
    /\ PipelineDone =>
          \A i \in DOMAIN dg_groups :
              /\ outcomes[i] = NoMatch => ~InOutput(dg_groups[i])
              /\ outcomes[i] # NoMatch =>
                    \E st \in Stations : SetOf(outcomes[i].codes) \subseteq SetOf(st.mrt_codes)

\* two groups, the first without a result and the second with one: the output
\* is the station of the second group alone
C15_Witness ==
    /\ PipelineDone
    /\ Len(dg_groups) = 2
    /\ outcomes[1] = NoMatch
    /\ outcomes[2] # NoMatch
    /\ Len(consolidated) = 1
    /\ InOutput(dg_groups[2])

\* the scenario: the single group YISHUN with the one exit A
YishunAlone ==
    /\ Len(dg_groups) = 1
    /\ dg_groups[1].name = YISHUN
    /\ dg_groups[1].exits = << Exit(<< "A" >>, 0) >>

\* the search returns one candidate, in range, with the given name
SingleCandidate(name) ==
    /\ Len(dg_groups[1].results) = 1
    /\ dg_groups[1].results[1].BUILDING = name
    /\ dg_groups[1].results[1].missing = {}
    /\ dg_groups[1].results[1].LATITUDE = 0

\* the first result of the nearest-station service names the station and its code
FallbackNamesYishun ==
    /\ dg_groups[1].nearby # << >>
    /\ dg_groups[1].nearby[1] = NearbyStop(NS13, YISHUN_MRT)

\* what the scenario expects of match_station and of consolidate
YishunMatched ==
    /\ outcomes[1] # NoMatch
    /\ outcomes[1].official_name = YISHUN_MRT
    /\ outcomes[1].codes = << NS13 >>

YishunStation ==
    consolidated =
        << [official_name |-> YISHUN_MRT, mrt_codes |-> << NS13 >>,
            exits |-> << Exit(<< "E", "x", "i", "t", " ", "A" >>, 0) >>] >>

(* C16 as stated: for the single group YISHUN with one exit A and a search  *)
(* that returns a single in-range candidate named YISHUN MRT STATION,       *)
(* match_station returns YISHUN MRT STATION with codes [NS13] and           *)
(* consolidate returns that one station with the exit Exit A.               *)
C16_AsStated ==
    (YishunAlone /\ SingleCandidate(YISHUN_MRT)) =>
        /\ Len(outcomes) = 1 => YishunMatched
        /\ PipelineDone => YishunStation

(* C16: for the single group YISHUN with one exit A, if the search returns  *)
(* a single in-range candidate named YISHUN MRT STATION (NS13), or one      *)
(* named YISHUN MRT STATION while the first nearest-station result has the  *)
(* code NS13 and the name YISHUN MRT STATION, then match_station returns    *)
(* YISHUN MRT STATION with codes [NS13] and consolidate returns exactly one *)
(* station of that name, with mrt_codes [NS13] and the single exit Exit A   *)
(* at the coordinates of the input.                                         *)
C16_EndToEnd ==
    (/\ YishunAlone
     /\ \/ SingleCandidate(YISHUN_MRT_NS13)
        \/ SingleCandidate(YISHUN_MRT) /\ FallbackNamesYishun) =>
        /\ Len(outcomes) = 1 => YishunMatched
        /\ PipelineDone => YishunStation

\* the scenario with the code in the candidate's name, run to the end
C16_Witness ==
    /\ YishunAlone
    /\ SingleCandidate(YISHUN_MRT_NS13)
    /\ PipelineDone
    /\ YishunStation

----------------------------------------------------------------------------
(* Properties of Stage2Enrichment.execute *)

\* execute has returned its output, complete or partial
OutputReturned == epc \in { "returned", "timeout" }

(* C17: on a resume with retry_failed, _extract_station is called only for  *)
(* input stations that the loaded checkpoint lists in failed_stations or    *)
(* does not list in processed_station_ids; a station recorded as processed  *)
(* and not failed is never extracted again.                                 *)
C17_RetryExtractsFailedOrNew ==
    (resume_mode /\ retry_failed /\ checkpoint # NoCheckpoint) =>
        \A s \in extracted :
            \/ s \in IdsOf(checkpoint.failed_stations)
            \/ s \notin SetOf(checkpoint.processed_station_ids)

\* both stations are recorded as processed and NS2 as permanently failed: the
\* run extracts NS2 and nothing else
C17_Witness ==
    /\ resume_mode /\ retry_failed /\ checkpoint # NoCheckpoint
    /\ checkpoint.processed_station_ids = << "NS1", "NS2" >>
    /\ checkpoint.failed_stations = << [station_id |-> "NS2", permanent |-> TRUE] >>
    /\ DOMAIN checkpoint.stations = { "NS1" }
    /\ epc = "returned"
    /\ extracted = { "NS2" }

\* no entry of the list has the station id of an earlier one
NoRepeatedId(entries) ==
    \A i, j \in DOMAIN entries : entries[i].station_id = entries[j].station_id => i = j

(* C18: in the output of execute, whatever checkpoint was loaded and        *)
(* whatever the extractions did, stations, failed_stations and              *)
(* skipped_stations are pairwise disjoint and no id is twice in             *)
(* skipped_stations.                                                        *)
C18_CollectionsDisjoint ==
    OutputReturned =>
        LET succeeded == DOMAIN enrich_results.stations
            failed == IdsOf(enrich_results.failed_stations)
            skipped == IdsOf(enrich_results.skipped_stations)
        IN  /\ succeeded \cap failed = {}
            /\ succeeded \cap skipped = {}
            /\ failed \cap skipped = {}
            /\ NoRepeatedId(enrich_results.skipped_stations)

----------------------------------------------------------------------------
(* Properties of _load_incremental_checkpoint *)

Loaded == lpc = "done"

\* the file loads and has processed ids of its own
LoadsWithProcessed(file) == file.kind = "data" /\ file.processed_station_ids # << >>

\* the file loads with stations but without processed ids
NeedsRebuild(file) ==
    file.kind = "data" /\ file.processed_station_ids = << >> /\ file.stations # << >>

\* the file loads and records a station in one of its collections
RecordsAStation(file) ==
    /\ file.kind = "data"
    /\ \/ file.stations # << >>
       \/ file.failed_stations # << >>
       \/ file.skipped_stations # << >>

\* the source that the order of preference selects
PreferredSource ==
    IF LoadsWithProcessed(main_file) THEN "main"
    ELSE IF LoadsWithProcessed(backup_file) \/ NeedsRebuild(backup_file) THEN "backup"
    ELSE IF NeedsRebuild(main_file) THEN "main rebuilt"
    ELSE IF LoadsWithProcessed(enrichment_file) \/ RecordsAStation(enrichment_file)
         THEN "enrichment"
    ELSE "none"

\* the file a source stands for
FileOf(source) ==
    IF source \in { "main", "main rebuilt" } THEN main_file
    ELSE IF source = "backup" THEN backup_file
    ELSE enrichment_file

(* C19: the loader takes the main checkpoint if it loads with processed ids; *)
(* otherwise the backup if it yields processed ids, also when the main file  *)
(* has stations but no processed ids or is absent; otherwise the main file   *)
(* with its processed ids rebuilt; otherwise the converted enrichment file;  *)
(* and it returns None when none of these yields processed ids.              *)
C19_OrderOfPreference ==
    Loaded =>
        /\ loaded_from = PreferredSource
        /\ loaded = NoCheckpoint <=> PreferredSource = "none"
        /\ loaded # NoCheckpoint =>
              /\ loaded.processed_station_ids # << >>
              /\ loaded.failed_stations = FileOf(PreferredSource).failed_stations
              /\ LoadsWithProcessed(FileOf(PreferredSource)) =>
                    loaded.processed_station_ids =
                        FileOf(PreferredSource).processed_station_ids

\* the main file has a station but no processed ids and the backup is intact:
\* the backup is taken, and the enrichment file is not looked at
C19_Witness ==
    /\ Loaded
    /\ NeedsRebuild(main_file)
    /\ backup_file = Data(<< "NS1" >>, << >>, << >>, << "NS1" >>)
    /\ LoadsWithProcessed(enrichment_file)
    /\ loaded_from = "backup"
    /\ loaded = Checkpoint(<< "NS1" >>, << >>, << >>, << "NS1" >>)

\* no element of the list occurs twice
DuplicateFree(list) == \A i, j \in DOMAIN list : list[i] = list[j] => i = j

----------------------------------------------------------------------------
(* Properties of _apply_corrections *)

Corrected == cpc = "done"

\* the station is one of the four interchanges by its display name
IsInterchange(station) == Upper(station.display_name) \in INTERCHANGE_STATIONS

(* C21: _apply_corrections renames exactly the stations whose upper-cased    *)
(* display name is CHOA CHU KANG, BUKIT PANJANG, SENGKANG or PUNGGOL to      *)
(* "<NAME> MRT/LRT STATION" with station_type MRT, and leaves official_name  *)
(* and station_type of every other station as they were.                    *)
C21_InterchangesRenamed ==
    Corrected =>
        /\ Len(corrected) = Len(stage1_stations)
        /\ \A k \in DOMAIN stage1_stations :
              IF IsInterchange(stage1_stations[k])
              THEN /\ corrected[k].official_name =
                          Upper(stage1_stations[k].display_name) \o MRT_LRT_STATION
                   /\ corrected[k].station_type = MRT
              ELSE /\ corrected[k].official_name = stage1_stations[k].official_name
                   /\ corrected[k].station_type = stage1_stations[k].station_type

\* the LRT half of Choa Chu Kang becomes an MRT/LRT station of type MRT, while
\* South View stays an LRT station and the Sengkang hub spelt Seng Kang keeps
\* its name
C21_Witness ==
    /\ Corrected
    /\ Len(stage1_stations) = 3
    /\ stage1_stations[1].official_name = CHOA_CHU_KANG_LRT
    /\ corrected[1].official_name = CHOA_CHU_KANG \o MRT_LRT_STATION
    /\ corrected[1].station_type = MRT
    /\ stage1_stations[2].display_name = South_View
    /\ corrected[2].station_type = LRT
    /\ stage1_stations[3].display_name = Seng_Kang
    /\ corrected[3].official_name = SENGKANG_MRT
    /\ STC \in SetOf(corrected[3].mrt_codes)

----------------------------------------------------------------------------
(* Properties of consolidate: the scan over the existing stations *)

\* the stations of the list before the latest turn that its match qualifies for
QualifiedFor ==
    { k \in DOMAIN previous :
        \/ Criterion1(Handled, previous[k])
        \/ Criterion2(Handled, previous[k])
        \/ Criterion3(Handled, previous[k]) }

(* C22: first match wins.  A match that satisfies a merge criterion for      *)
(* several existing stations is merged into the earliest of them in the      *)
(* list and into no other: every other station keeps its name, codes and     *)
(* exits in that turn, and no turn removes a station or fuses two existing   *)
(* stations.                                                                 *)
C22_FirstMatchWins ==
    /\ TurnTaken =>
          /\ Len(consolidated) >= Len(previous)
          /\ \A k \in DOMAIN previous :
                consolidated[k].official_name = previous[k].official_name
    /\ Merged =>
          /\ QualifiedFor # {}
          /\ \A k \in QualifiedFor : MergeTarget <= k
          /\ MergeTarget \in QualifiedFor
          /\ \A k \in DOMAIN previous : k # MergeTarget => consolidated[k] = previous[k]

\* YISHUN at 0 m and KHATIB at 800 m share NS13 and stay apart; a second report
\* of YISHUN at 500 m qualifies for both and goes into the first, KHATIB keeping
\* its one exit
C22_Witness ==
    /\ Merged
    /\ idx = 4
    /\ QualifiedFor = { 1, 2 }
    /\ MergeTarget = 1
    /\ Len(consolidated[1].exits) = 2
    /\ consolidated[2] = previous[2]
    /\ Len(consolidated[2].exits) = 1

----------------------------------------------------------------------------
(* Properties of match_station: the collaborator calls *)

\* the call has been made at some position of the history
Called(service) == \E k \in DOMAIN calls : calls[k] = service

\* how often
TimesCalled(service) == Cardinality({ k \in DOMAIN calls : calls[k] = service })

\* the statements of one call agree with match_station as a whole
StepsAgree ==
    spc \in { "returned", "raised" } =>
        match_result = match_station(dg_name, dg_exits, search_results, nearby_results,
                                     DefaultEpsilon)

(* C23: within one call of match_station the search is called exactly once   *)
(* and before any other collaborator call; the nearest-station fallback is   *)
(* called at most once, only after all search results have been processed    *)
(* and only when no code was accumulated from them; no call is repeated.     *)
C23_CallsInOrder ==
    /\ spc # "search" => (calls # << >> /\ calls[1] = "search")
    /\ spc = "search" => calls = << >>
    /\ TimesCalled("search") <= 1
    /\ TimesCalled("nearby") <= 1
    /\ Called("nearby") =>
          /\ scan_idx > Len(search_results)
          /\ \A k \in DOMAIN search_results : WellFormed(search_results[k])
          /\ InRangeCodes = {}
    /\ StepsAgree

\* two candidates in range, neither with a code in its name: both are
\* processed, then the fallback is called once and gives the code
C23_Witness ==
    /\ spc = "returned"
    /\ calls = << "search", "nearby" >>
    /\ Len(search_results) = 2
    /\ \A k \in DOMAIN search_results : WithinEpsilon(search_results[k])
    /\ match_result # NoMatch
    /\ match_result.codes = << NS13 >>

----------------------------------------------------------------------------
(* Properties of match_station: the name of the result *)

\* the positions of the search candidates within epsilon of the centroid
InRangeIndices == { k \in DOMAIN search_results : WithinEpsilon(search_results[k]) }

\* the in-range candidate with the highest score, the earliest one on a tie
BestInRange ==
    CHOOSE k \in InRangeIndices :
        \A j \in InRangeIndices :
            \/ search_results[j].score < search_results[k].score
            \/ search_results[j].score = search_results[k].score /\ k <= j

\* the name of that candidate, upper-cased and cleaned
BestCleanName == CleanName(Upper(search_results[BestInRange].BUILDING))

\* C24 as stated: with codes from the search path, the official_name is the
\* cleaned name of the best in-range candidate, whatever that cleaned name is
C24_AsStated ==
    (Matched /\ InRangeCodes # {}) => match_result.official_name = BestCleanName

(* C24: when the codes come from the search path, the official_name that    *)
(* match_station returns is the cleaned name of the in-range candidate with *)
(* the highest score, the earliest one on a tie, whether or not that score  *)
(* reaches the fuzzy threshold; if that cleaned name is empty, it is the    *)
(* upper-cased source name.                                                 *)
C24_BestCandidateNames ==
    (Matched /\ InRangeCodes # {}) =>
        /\ match_result # NoMatch
        /\ match_result.official_name =
               IF BestCleanName # << >> THEN BestCleanName ELSE Upper(dg_name)

\* two in-range candidates tie below the threshold: the earlier one names the
\* result, although the later one brings the codes
C24_Witness ==
    /\ Matched
    /\ dg_exits = << Exit(<< "A" >>, 0) >>
    /\ search_results = << Candidate(YISHUN_MRT, DefaultEpsilon, 50),
                           Candidate(CodesOnly, DefaultEpsilon, 50) >>
    /\ search_results[1].score < FuzzyThreshold
    /\ match_result.official_name = YISHUN_MRT
    /\ match_result.codes = << EW24, NS14 >>

\* the text has no parenthetical annotation: \(.*?\) finds nothing in it
NoParenthetical(s) == ReSubParens(s) = s

\* the text has no exit reference: \s+EXIT\s+[A-Z0-9]+ finds nothing in it
NoExitReference(s) == ReSubExitRef(s) = s

\* C25: every result of match_station has an official_name that is
\* upper-cased and has no parenthetical annotation and no exit reference,
\* whether the name comes from the best in-range candidate, from the
\* nearest-station fallback or from the source name
C25_NameIsClean ==
    (Matched /\ match_result # NoMatch) =>
        /\ match_result.official_name = Upper(match_result.official_name)
        /\ NoParenthetical(match_result.official_name)
        /\ NoExitReference(match_result.official_name)

\* the fallback supplies the codes and a name with an annotation, and the
\* result carries that name as it came
C25_FallbackNameKept ==
    /\ Matched
    /\ InRangeCodes = {}
    /\ nearby_results = << NearbyStop(NS13, YISHUN_MRT_NS13) >>
    /\ match_result.official_name = YISHUN_MRT_NS13

----------------------------------------------------------------------------
(* Properties of _get_base_name *)

\* str.endswith(p)
EndsWith(s, p) == Len(s) >= Len(p) /\ SubSeq(s, Len(s) - Len(p) + 1, Len(s)) = p

\* s without its last Len(p) characters
DropLast(s, p) == SubSeq(s, 1, Len(s) - Len(p))

\* the upper-cased name without the first of the four suffixes that ends it
TrailingSuffixStripped(official_name) ==
    LET base == Upper(official_name)
    IN  Strip(IF EndsWith(base, MRT_LRT_STATION) THEN DropLast(base, MRT_LRT_STATION)
              ELSE IF EndsWith(base, MRT_STATION) THEN DropLast(base, MRT_STATION)
              ELSE IF EndsWith(base, LRT_STATION) THEN DropLast(base, LRT_STATION)
              ELSE IF EndsWith(base, STATION) THEN DropLast(base, STATION)
              ELSE base)

BaseNamesCompared == bpc = "done"

\* C26: the base name is the upper-cased official name with one of the
\* suffixes ' MRT/LRT STATION', ' MRT STATION', ' LRT STATION', ' STATION'
\* (checked in that order) stripped from its end, text elsewhere in the name
\* being left in place; two names have equal base names only if they differ
\* in nothing but that trailing suffix
C26_TrailingSuffixOnly ==
    BaseNamesCompared =>
        /\ base_a = TrailingSuffixStripped(name_a)
        /\ base_b = TrailingSuffixStripped(name_b)
        /\ base_a = base_b =>
               TrailingSuffixStripped(name_a) = TrailingSuffixStripped(name_b)

\* ' STATION' in the middle of the first name is removed with the suffix, and
\* the two base names are equal
C26_MiddleRemoved ==
    /\ BaseNamesCompared
    /\ name_a = << "A", "b" >> \o STATION \o MRT_STATION
    /\ name_b = << "A", "b" >> \o MRT_STATION
    /\ base_a = << "A", "B" >>
    /\ base_b = << "A", "B" >>

----------------------------------------------------------------------------
(* Properties of Stage2Enrichment.execute: retries and checkpoints *)

\* a station has been handled, or the run has ended
AfterBegin == epc \in { "loop", "timeout", "returned", "raised" }

\* the station handled last, and whether its first extraction raised
HandledOne == AfterBegin /\ station_idx > 1
LastStation == stations_to_process[station_idx - 1]
FirstAttemptRaised == HandledOne /\ retries > 0

\* the entries of the station in failed_stations
FailureEntries(res, station) ==
    { k \in DOMAIN res.failed_stations : res.failed_stations[k].station_id = station }

RetrySucceeded ==
    /\ LastStation \in DOMAIN enrich_results.stations
    /\ FailureEntries(enrich_results, LastStation) = {}

PermanentlyFailed ==
    /\ FailureEntries(enrich_results, LastStation) # {}
    /\ \A k \in FailureEntries(enrich_results, LastStation) :
           enrich_results.failed_stations[k].permanent

(* C27: for a station whose first extraction raised, at most max_retries    *)
(* further attempts are made; afterwards the station is either in stations  *)
(* and not in failed_stations, or in failed_stations with permanent = True  *)
(* after max_retries failed attempts, never both; and retry_queue is empty  *)
(* whenever a checkpoint is saved or an output is returned.                 *)
C27_RetryProtocol ==
    /\ retries <= max_retries
    /\ FirstAttemptRaised =>
          /\ RetrySucceeded \/ PermanentlyFailed
          /\ ~(RetrySucceeded /\ PermanentlyFailed)
          /\ PermanentlyFailed => retries = max_retries
    /\ AfterBegin => enrich_results.retry_queue = << >>

\* every retry of the first station raised: its entry is permanent, the queue
\* is empty and the checkpoint saved after it says the same
C27_Witness ==
    /\ epc = "loop"
    /\ FirstAttemptRaised
    /\ retries = max_retries
    /\ PermanentlyFailed
    /\ enrich_results.retry_queue = << >>
    /\ saved # NoCheckpoint
    /\ saved.failed_stations = << [station_id |-> LastStation, permanent |-> TRUE] >>

\* the processed ids of the checkpoint this run saved last
SavedIds ==
    IF saved = NoCheckpoint THEN {} ELSE SetOf(saved.processed_station_ids)

\* C28: the incremental checkpoint is saved after each station has been
\* handled (success, skip, or failure with its retries) and before the next
\* extraction starts, and on timeout and failure: whenever an extraction
\* starts or the run stops, the processed_station_ids of the last saved
\* checkpoint contain every station handled earlier in the run
C28_SavedAfterEachStation ==
    AfterBegin => extracted \subseteq SavedIds

\* the first station was skipped and nothing has been saved when the
\* extraction of the second one starts
C28_SkipNotSaved ==
    /\ epc = "loop"
    /\ station_idx = 2
    /\ LastStation \in IdsOf(enrich_results.skipped_stations)
    /\ saved = NoCheckpoint

\* C29: every value in the stations mapping of the Stage 2 results is an
\* enriched station record, never None, whether None was returned by the
\* first attempt or by a retry after the first attempt raised
C29_NoNoneStored ==
    AfterBegin => \A x \in DOMAIN enrich_results.stations : enrich_results.stations[x] # "None"

\* a first attempt that returns None leaves no entry in stations
C29_FirstAttemptSkips ==
    /\ HandledOne
    /\ retries = 0
    /\ LastStation \in IdsOf(enrich_results.skipped_stations)
    /\ LastStation \notin DOMAIN enrich_results.stations

----------------------------------------------------------------------------
(* Properties of consolidate: criterion 2 beside criteria 1 and 3 *)

\* the stations a match qualifies for under criteria 1 and 3 alone
ByCodeOrBaseName(match, stations) ==
    { k \in DOMAIN stations :
        Criterion1(match, stations[k]) \/ Criterion3(match, stations[k]) }

\* a consolidator that uses criteria 1 and 3 only, from matches[k] on
RECURSIVE ConsolidatedWithout2(_, _, _)
ConsolidatedWithout2(stations, matches, k) ==
    IF k > Len(matches)
    THEN [ j \in DOMAIN stations |-> [stations[j] EXCEPT !.exits = SortedExits(@)] ]
    ELSE LET c == ByCodeOrBaseName(matches[k], stations)
             first == CHOOSE i \in c : \A j \in c : i <= j
         IN  IF c = {}
             THEN ConsolidatedWithout2(Append(stations, NewEntry(matches[k])), matches, k + 1)
             ELSE ConsolidatedWithout2([stations EXCEPT ![first] = MergeInto(@, matches[k])],
                                       matches, k + 1)

\* criterion 2 holds for the match of the latest turn and some station
Criterion2Held ==
    TurnTaken /\ \E k \in DOMAIN previous : Criterion2(Handled, previous[k])

(* C30: with a spatial threshold of at least 300 m, criterion 2 never       *)
(* decides a merge on its own: whenever it holds for a match and a station, *)
(* criterion 3 holds too, every turn has the candidates that criteria 1 and *)
(* 3 give, and consolidate returns what a consolidator using only criteria  *)
(* 1 and 3 returns.                                                         *)
C30_Criterion2Redundant ==
    spatial_threshold >= NameThreshold =>
        /\ TurnTaken =>
              /\ \A k \in DOMAIN previous :
                     Criterion2(Handled, previous[k]) => Criterion3(Handled, previous[k])
              /\ Candidates(Handled, previous, spatial_threshold)
                     = ByCodeOrBaseName(Handled, previous)
        /\ Returned => consolidated = ConsolidatedWithout2(<< >>, raw_matches, 1)

\* a threshold of exactly 300 m: two reports of one name 250 m apart are
\* merged, criterion 2 and criterion 3 both holding
C30_Witness ==
    /\ Returned
    /\ spatial_threshold = NameThreshold
    /\ Len(raw_matches) = 2
    /\ raw_matches[1].official_name = raw_matches[2].official_name
    /\ raw_matches[1].exits[1].lat = 0
    /\ raw_matches[2].exits[1].lat = 250
    /\ Len(consolidated) = 1

\* below 300 m criterion 2 can decide: with a threshold of 200 m the same two
\* reports are merged, and a consolidator without criterion 2 keeps them apart
C30_DecidesBelow300 ==
    /\ Returned
    /\ spatial_threshold < NameThreshold
    /\ Len(consolidated) = 1
    /\ Len(ConsolidatedWithout2(<< >>, raw_matches, 1)) = 2

====
